---- MODULE Spec2Model ----
(***************************************************************************)
(* Recording Session Store of the Playwright test-automation backend:      *)
(* SessionManager (in-memory sessions), BrowserManager (driver bindings)   *)
(* and DatabaseService (durable mirror), as one state machine.             *)
(*                                                                         *)
(* The server is a single-threaded Node.js process: every async method     *)
(* runs atomically from one `await` to the next, and any other handler may *)
(* run at an `await`.  An in-flight call is a task record whose pc names   *)
(* the await it is suspended on; each action below is one such segment.    *)
(***************************************************************************)
EXTENDS Integers, Sequences, FiniteSets, Bags, TLC

\* ------------------------------------------------------------------ bounds
MaxCalls == 3      \* calls issued by clients and driver events, createSession apart
MaxEdits == 4      \* the same, in the specification of the step editor
MaxHyd == 2        \* hydrations (db.getSession loads) started by lookups that miss
MaxSignals == 2    \* SIGTERM/SIGINT signals the process receives
MaxDrainCalls == 2 \* calls issued by clients in the specification of the shutdown
MaxRoomCalls == 2  \* calls issued by clients in the specification of the push channel
MaxGenCalls == 1   \* generateFallbackSelectors calls in the specification of the generator
MaxPureCalls == 2  \* the same, next to the calls that change sessions
MaxFallbackCalls == 2  \* calls issued by clients next to them
MaxRenderSteps == 2    \* steps of the session the code generator is given
MaxSyncCalls == 3      \* calls issued by clients while the durable store never fails
MaxPairCalls == 3      \* calls issued by clients on two sessions side by side
MaxSocketCalls == 3    \* calls issued by clients of the push channel
MaxSettingsCalls == 3  \* calls issued to a session whose settings are updated
MaxStatusCalls == 3    \* status operations issued to a session
MaxTripSteps == 2      \* steps inserted into the steps table of one session

\* Session ids are uuids (SessionManager.ts:18).  FreshIds can still be drawn by
\* createSession in this process; ColdIds were persisted by an earlier process
\* and are in the durable store, not in memory, when the process starts.
FreshIds == {"s1"}
ColdIds == {"s2"}
Sessions == FreshIds \cup ColdIds

NoObj == 0
NoRow == [status |-> "none", settings |-> {}, testName |-> ""]
DefaultStrategies == <<"attribute_matching", "text_content_matching", "positional_matching">>
\* defaultSettings of createSession; screenshotMode stands for the six scalar settings.
DefaultSettings == [healingStrategies |-> DefaultStrategies, screenshotMode |-> "on-failure"]
\* The testName every session is created with.
FirstName == "checkout"
\* socket.id of the connections the push channel accepts; an id is used by one connection.
Sockets == {"k1", "k2"}

VARIABLES
  activeSessions,  \* SessionManager.activeSessions: session id -> heap object (NoObj: absent)
  heap,            \* the TestSession objects ever built, by reference
  bindings,        \* BrowserManager.sessions: does the registry hold a binding for the id
  page,            \* the BrowserSession object of an id: context/page state and listeners
  dbSessions,      \* durable `sessions` table: id -> row or NoRow
  dbSteps,         \* durable `steps` table: set of rows
  tasks,           \* bag of in-flight async calls, each suspended at an await
  issued,          \* uuids createSession has drawn
  known,           \* ids a client can name: persisted earlier, or listed by GET /sessions
  nextStep,        \* next fresh step uuid
  calls,           \* calls the clients and the driver may still issue (a bound)
  hyds,            \* number of hydrations started (bounded by MaxHyd)
  onlyAdds,        \* history: no call other than createSession, addStep or a driver event yet
  plainEdits,      \* history: createSession, addStep, removeStep, driver events only, and
                   \* every durable write so far has landed
  accepted,        \* history: per session, the steps in the order they were appended
  stopDone,        \* history: sessions for which a stopRecording call has returned
  deleted,         \* history: sessions for which a deleteSession call has returned
  lastResult,      \* the outcome of the call that returned last
  browsers,        \* BrowserManager.browsers: the engine instance held for 'chromium' (NoObj: none)
  engines,         \* the Browser objects ever launched: how often close() was called on each
  closers,         \* the closeAll calls of the signal handlers, each at its await
  signals,         \* signals the process may still receive (a bound)
  shutdownCloses,  \* history: per session, the context.close() calls made by closeAll
  drained,         \* history: no browser.close() was called while a context on it was open
  connectedClients,    \* WebSocketManager.connectedClients: the ids of the connected sockets
  sessionConnections,  \* WebSocketManager.sessionConnections: session id -> set of socket ids
  rooms,               \* the rooms of the socket.io server: session id -> sockets that joined
  disconnected,        \* history: the socket ids whose connection has ended
  deregistered,        \* history: <<socket, session>> pairs a leave or a disconnect removed
  healing,             \* the healStep call in flight or returned: arguments, position,
                       \* the probes made so far and the result
  genLog,              \* history: the generateFallbackSelectors calls made on the engine
                       \* directly, with their arguments and results
  exported,            \* the session given to the code generator, and the last two
                       \* exports of it: the session as it was and the code returned
  located,             \* the run of one statement of the last exported script: the
                       \* arguments its call passes and the probes of the helper
  persisted            \* the steps table of one session: the steps as addStep holds
                       \* them, the rows inserted, and the last getSessionSteps result

storeVars == <<activeSessions, heap, bindings, page, dbSessions, dbSteps, tasks, issued,
               known, nextStep, calls, hyds, onlyAdds, plainEdits, accepted, stopDone,
               deleted, lastResult>>

driverVars == <<browsers, engines, closers, signals, shutdownCloses, drained>>

sideVars == <<connectedClients, sessionConnections, rooms, disconnected, deregistered,
              healing, genLog, exported, located, persisted>>

vars == <<storeVars, driverVars, sideVars>>

\* ------------------------------------------------------------------ helpers
Status(s) == IF activeSessions[s] = NoObj THEN "absent" ELSE heap[activeSessions[s]].status

\* What a call carries across its awaits besides the session: the step an addStep
\* has built so far, the payload of an update.
NoData == [type |-> "none"]

Task(op, s, pc, ref) ==
  [op |-> op, sid |-> s, pc |-> pc, ref |-> ref, chan |-> "api", step |-> 0, ord |-> 0,
   row |-> NoRow, data |-> NoData,
   \* ghost fields, read by the properties only: the status and the registry entry
   \* the call found, whether the call has written to memory, whether its binding
   \* left the registry while it was suspended, whether it began after a stop returned
   pre |-> Status(s), bound |-> bindings[s], wrote |-> FALSE, lost |-> FALSE,
   late |-> FALSE,
   \* more ghost fields: whether the durable store held the session at the call,
   \* whether the step id the call names was a step of the session
   stored |-> dbSessions[s] # NoRow, found |-> TRUE]

\* The event the handler of a call broadcasts to the session's room when the call
\* has returned normally (sessionRoutes.ts:107-267, WebSocketManager.ts:51-161);
\* the driver listeners and the handlers of createSession, deleteSession and
\* PUT /:sessionId broadcast nothing, a call that throws broadcasts nothing.
EmitOf(t, res) ==
  IF res # "ok" \/ t.chan = "driver" THEN "none"
  ELSE CASE t.op = "addStep" -> "step:recorded"
         [] t.op = "updateStep" -> "step:updated"
         [] t.op = "removeStep" -> "step:removed"
         [] t.op = "updateSettings" -> "settings:updated"
         [] t.op = "start" -> "recording:started"
         [] t.op = "pause" -> "recording:paused"
         [] t.op = "stop" -> "recording:ended"
         [] OTHER -> "none"

Result(t, res) ==
  [op |-> t.op, sid |-> t.sid, res |-> res, pre |-> t.pre, bound |-> t.bound,
   wrote |-> t.wrote, lost |-> t.lost, stored |-> t.stored, found |-> t.found,
   chan |-> t.chan, step |-> t.step, emit |-> EmitOf(t, res)]

NoResult ==
  [op |-> "none", sid |-> "-", res |-> "-", pre |-> "-", bound |-> FALSE,
   wrote |-> FALSE, lost |-> FALSE, stored |-> FALSE, found |-> FALSE,
   chan |-> "-", step |-> 0, emit |-> "none"]

Spawn(b, t) == b (+) SetToBag({t})
Drop(b, t) == b (-) SetToBag({t})
Move(b, t, u) == Spawn(Drop(b, t), u)
Running == BagToSet(tasks)

\* The BrowserSession of an id (types/index.ts:48-54): its context and page exist,
\* the context is closed, the engine instance it was created on, the recording flag
\* and the listeners registered on the page.
NoPage ==
  [exists |-> FALSE, closed |-> FALSE, isRecording |-> FALSE, navL |-> 0, conL |-> 0,
   browser |-> NoObj]

StepIds(q) == [i \in 1..Len(q) |-> q[i].id]

\* ------------------------------------------------------------------ fallback selectors
\* A selector is the sequence of its pieces, so that the code's tests on the text
\* (includes, replace, split, match) can be computed: "#submit-button" is
\* <<"#", "submit-button">>, "form .alt-button" is <<"form", " ", ".", "alt-button">>,
\* '[data-testid="save"]' is <<"[data-testid=\"", "save", "\"]">>.  Str gives the text.
RECURSIVE Str(_)
Str(sel) == IF sel = <<>> THEN "" ELSE Head(sel) \o Str(Tail(sel))

Includes(sel, piece) == \E i \in DOMAIN sel : sel[i] = piece

\* String.prototype.replace(piece, ''): the first occurrence goes.
RECURSIVE ReplaceFirst(_, _)
ReplaceFirst(sel, piece) ==
  IF sel = <<>> THEN <<>>
  ELSE IF Head(sel) = piece THEN Tail(sel)
  ELSE <<Head(sel)>> \o ReplaceFirst(Tail(sel), piece)

\* selector.split(' ')[0]
RECURSIVE FirstWord(_)
FirstWord(sel) ==
  IF sel = <<>> \/ Head(sel) = " " THEN <<>> ELSE <<Head(sel)>> \o FirstWord(Tail(sel))

\* selector.match(/data-testid="([^"]+)"/)?.[1]; <<>> stands for no match.
TestIdOf(sel) ==
  LET at == {i \in DOMAIN sel : /\ sel[i] = "[data-testid=\""
                                /\ i + 2 <= Len(sel)
                                /\ sel[i + 2] = "\"]"}
        first == CHOOSE i \in at : \A j \in at : i <= j
  IN IF at = {} THEN <<>> ELSE <<sel[first + 1]>>

generateAttributeBasedFallbacks(selector) ==
  IF Includes(selector, "#") THEN
    LET id == Str(ReplaceFirst(selector, "#"))
    IN <<"[data-testid=\"" \o id \o "\"]", "[id*=\"" \o id \o "\"]",
         "[name=\"" \o id \o "\"]", "[aria-label*=\"" \o id \o "\"]">>
  ELSE IF Includes(selector, ".") THEN
    LET className == Str(ReplaceFirst(selector, "."))
    IN <<"[data-testid*=\"" \o className \o "\"]", "[class*=\"" \o className \o "\"]",
         "[aria-label*=\"" \o className \o "\"]">>
  ELSE IF Includes(selector, "[data-testid=\"") /\ TestIdOf(selector) # <<>> THEN
    LET testId == TestIdOf(selector)[1]
    IN <<"[aria-label*=\"" \o testId \o "\"]", "[id*=\"" \o testId \o "\"]",
         "[name*=\"" \o testId \o "\"]", "[title*=\"" \o testId \o "\"]">>
  ELSE <<>>

generateTextBasedFallbacks(selector, stepType) ==
  CASE stepType = "click" ->
         <<"button:has-text(\"Submit\")", "button:has-text(\"Save\")",
           "button:has-text(\"Continue\")", "a:has-text(\"Click\")", "[role=\"button\"]">>
    [] stepType = "fill" ->
         <<"input[type=\"text\"]", "input[type=\"email\"]", "input[type=\"password\"]",
           "textarea", "[role=\"textbox\"]">>
    [] stepType = "select" -> <<"select", "[role=\"combobox\"]", "[role=\"listbox\"]">>
    [] OTHER -> <<>>

generatePositionalFallbacks(selector) ==
  LET first == FirstWord(selector)
      baseSelector == Str(IF first = <<>> THEN selector ELSE first)
  IN <<baseSelector \o ":first-child", baseSelector \o ":last-child",
       baseSelector \o ":nth-child(1)", baseSelector \o ":nth-child(2)",
       "form " \o baseSelector, "div " \o baseSelector, "main " \o baseSelector>>

generateSemanticFallbacks(selector, stepType) ==
  CASE stepType = "click" ->
         <<"[role=\"button\"]", "[role=\"link\"]", "[role=\"menuitem\"]", "[role=\"tab\"]">>
    [] stepType = "fill" ->
         <<"[role=\"textbox\"]", "[role=\"searchbox\"]", "[aria-label*=\"input\"]",
           "[aria-label*=\"field\"]">>
    [] stepType = "assertion" ->
         <<"[role=\"heading\"]", "[role=\"status\"]", "[role=\"alert\"]", "[aria-live]">>
    [] OTHER -> <<>>

generateVisualFallbacks(selector) ==
  <<"[style*=\"visible\"]", "[style*=\"display: block\"]", ":visible">>

\* A variant of applyStrategy without the case of TEXT_CONTENT_MATCHING.
applyStrategyNoText(strategy, selector, stepType) ==
  CASE strategy = "attribute_matching" -> generateAttributeBasedFallbacks(selector)
    [] strategy = "positional_matching" -> generatePositionalFallbacks(selector)
    [] strategy = "semantic_similarity" -> generateSemanticFallbacks(selector, stepType)
    [] strategy = "visual_ai_matching" -> generateVisualFallbacks(selector)
    [] OTHER -> <<>>

applyStrategy(strategy, selector, stepType) ==
  CASE strategy = "attribute_matching" -> generateAttributeBasedFallbacks(selector)
    [] strategy = "text_content_matching" -> generateTextBasedFallbacks(selector, stepType)
    [] strategy = "positional_matching" -> generatePositionalFallbacks(selector)
    [] strategy = "semantic_similarity" -> generateSemanticFallbacks(selector, stepType)
    [] strategy = "visual_ai_matching" -> generateVisualFallbacks(selector)
    [] OTHER -> <<>>

\* A variant of Unique that returns the array as it was filled.
KeepAll(q, seen) == q

\* [...new Set(fallbacks)]: first occurrences, in order.
RECURSIVE Unique(_, _)
Unique(q, seen) ==
  IF q = <<>> THEN <<>>
  ELSE IF Head(q) \in seen THEN Unique(Tail(q), seen)
  ELSE <<Head(q)>> \o Unique(Tail(q), seen \cup {Head(q)})

RECURSIVE AllFallbacks(_, _, _)
AllFallbacks(primarySelector, stepType, enabledStrategies) ==
  IF enabledStrategies = <<>> THEN <<>>
  ELSE applyStrategy(Head(enabledStrategies), primarySelector, stepType)
         \o AllFallbacks(primarySelector, stepType, Tail(enabledStrategies))

generateFallbackSelectors(primarySelector, stepType, enabledStrategies) ==
  Unique(AllFallbacks(primarySelector, stepType, enabledStrategies), {})


\* ------------------------------------------------------------------ healing at run time
\* No healStep call yet.
NoHealing ==
  [pc |-> "idle", originalSelector |-> "", fallbackSelectors |-> <<>>, next |-> 0,
   probes |-> <<>>, result |-> [healed |-> FALSE, newSelector |-> "", confidence |-> 0]]

\* No step has been inserted and no session's steps have been read.
NoTrip == [steps |-> <<>>, rows |-> {}, loaded |-> <<>>, read |-> FALSE]

\* What an insert into the steps table and a read of it leave alone.
tripFrame ==
  <<storeVars, driverVars, connectedClients, sessionConnections, rooms, disconnected,
    deregistered, healing, genLog, exported, located>>

\* What a call of the healing engine leaves alone.
healFrame ==
  <<storeVars, driverVars, connectedClients, sessionConnections, rooms, disconnected,
    deregistered, genLog, exported, located, persisted>>

\* validateSelector (168-176): true when element.waitFor resolves within the
\* timeout, false when it throws.  What the page answers is the page's choice; a
\* locator with no text selects nothing.
validateSelector(selector) == IF selector = "" THEN {FALSE} ELSE BOOLEAN

\* Confidence values are kept in tenths: 10 is 1.0, 8 is 0.8, 0 is 0.0.
HealResult(healed, newSelector, confidence) ==
  [healed |-> healed, newSelector |-> newSelector, confidence |-> confidence]

\* healStep up to `await this.validateSelector(originalSelector, page)` (198-204).
healStep(originalSelector, fallbackSelectors) ==
  /\ healing.pc \in {"idle", "done"}
  /\ healing' = [NoHealing EXCEPT !.pc = "original",
                                  !.originalSelector = originalSelector,
                                  !.fallbackSelectors = fallbackSelectors]
  /\ UNCHANGED healFrame

\* findBestFallback from the selector at position i on, up to its next await or
\* its return (183-195), and the rest of healStep when it returns (211-219): the
\* result is { healed: true } when the string returned is truthy.
findBestFallbackFrom(h, i, found) ==
  IF found # "" THEN [h EXCEPT !.pc = "done", !.result = HealResult(TRUE, found, 8)]
  ELSE IF i > Len(h.fallbackSelectors)
    THEN [h EXCEPT !.pc = "done", !.result = HealResult(FALSE, "", 0)]
  ELSE [h EXCEPT !.pc = "fallback", !.next = i]

\* A variant of healStepOriginal that reports full confidence when it gives up.
healStepOriginalSure ==
  /\ healing.pc = "original"
  /\ \E originalWorks \in validateSelector(healing.originalSelector) :
       LET h == [healing EXCEPT !.probes = Append(@, [selector |-> healing.originalSelector,
                                                      resolved |-> originalWorks])]
           r == findBestFallbackFrom(h, 1, "")
       IN healing' =
            IF originalWorks THEN [h EXCEPT !.pc = "done", !.result = HealResult(FALSE, "", 10)]
            ELSE IF r.pc = "done" THEN [r EXCEPT !.result.confidence = 10] ELSE r
  /\ UNCHANGED healFrame

\* validateSelector(originalSelector) settles (204-210): the call returns, or
\* findBestFallback starts on the list.
healStepOriginal ==
  /\ healing.pc = "original"
  /\ \E originalWorks \in validateSelector(healing.originalSelector) :
       LET h == [healing EXCEPT !.probes = Append(@, [selector |-> healing.originalSelector,
                                                      resolved |-> originalWorks])]
       IN healing' =
            IF originalWorks THEN [h EXCEPT !.pc = "done", !.result = HealResult(FALSE, "", 10)]
            ELSE findBestFallbackFrom(h, 1, "")
  /\ UNCHANGED healFrame

\* A variant of findBestFallback that keeps probing after a selector resolved and
\* returns the last one that did.
findBestFallbackLast ==
  /\ healing.pc = "fallback"
  /\ LET selector == healing.fallbackSelectors[healing.next]
     IN \E isValid \in validateSelector(selector) :
          LET h == [healing EXCEPT !.probes = Append(@, [selector |-> selector,
                                                         resolved |-> isValid])]
              best == IF isValid THEN selector ELSE h.result.newSelector
          IN healing' =
               IF healing.next < Len(h.fallbackSelectors)
                 THEN [h EXCEPT !.next = @ + 1, !.result.newSelector = best]
                 ELSE findBestFallbackFrom(h, healing.next + 1, best)
  /\ UNCHANGED healFrame

\* validateSelector of the fallback at position `next` settles (185-189).
findBestFallback ==
  /\ healing.pc = "fallback"
  /\ LET selector == healing.fallbackSelectors[healing.next]
     IN \E isValid \in validateSelector(selector) :
          LET h == [healing EXCEPT !.probes = Append(@, [selector |-> selector,
                                                         resolved |-> isValid])]
          IN healing' = findBestFallbackFrom(h, healing.next + 1,
                                             IF isValid THEN selector ELSE "")
  /\ UNCHANGED healFrame

\* ------------------------------------------------------------------ calls of the generator
\* What a generateFallbackSelectors call leaves alone.
genFrame ==
  <<storeVars, driverVars, connectedClients, sessionConnections, rooms, disconnected,
    deregistered, healing, exported, located, persisted>>

GenCall(in, result) ==
  [primarySelector |-> in[1], stepType |-> in[2], enabledStrategies |-> in[3],
   result |-> result]

\* A variant of generateCall that takes the strategies from a session in memory
\* when there is one, as if the engine kept the settings it was last used with.
generateCallOfSession(in, max) ==
  /\ Len(genLog) < max
  /\ LET held == {s \in Sessions : activeSessions[s] # NoObj}
         strategies == IF held = {} THEN in[3]
                       ELSE heap[activeSessions[CHOOSE s \in held : TRUE]].settings.healingStrategies
     IN genLog' = Append(genLog,
                         GenCall(in, generateFallbackSelectors(in[1], in[2], strategies)))
  /\ UNCHANGED genFrame

\* One call of generateFallbackSelectors on the engine (5-19), which has no field
\* and reads nothing but its arguments; none of its awaits waits for anything.
generateCall(in, max) ==
  /\ Len(genLog) < max
  /\ genLog' = Append(genLog, GenCall(in, generateFallbackSelectors(in[1], in[2], in[3])))
  /\ UNCHANGED genFrame

\* ------------------------------------------------------------------ code generator
\* JSON.stringify of a string: the quotes around it, and a backslash before each
\* quote and backslash; a line feed is written \n.
RECURSIVE EscapeFrom(_, _)
EscapeFrom(s, i) ==
  IF i > Len(s) THEN ""
  ELSE LET c == SubSeq(s, i, i)
       IN (IF c = "\"" THEN "\\\""
           ELSE IF c = "\\" THEN "\\\\"
           ELSE IF c = "\n" THEN "\\n"
           ELSE c) \o EscapeFrom(s, i + 1)

JsonString(s) == "\"" \o EscapeFrom(s, 1) \o "\""

\* Array.prototype.join
RECURSIVE Join(_, _)
Join(q, sep) ==
  IF q = <<>> THEN ""
  ELSE IF Len(q) = 1 THEN q[1]
  ELSE q[1] \o sep \o Join(Tail(q), sep)

\* JSON.stringify(step.fallbackSelectors || [])
JsonStringify(step) ==
  LET list == IF "fallbackSelectors" \in DOMAIN step THEN step.fallbackSelectors ELSE <<>>
  IN "[" \o Join([i \in DOMAIN list |-> JsonString(list[i])], ",") \o "]"

\* step.actionParams?.name || default, for a text and for a number.
Param(step, name, default) ==
  IF /\ "actionParams" \in DOMAIN step
     /\ name \in DOMAIN step.actionParams
     /\ step.actionParams[name] # ""
    THEN step.actionParams[name] ELSE default

ParamNumber(step, name, default) ==
  IF /\ "actionParams" \in DOMAIN step
     /\ name \in DOMAIN step.actionParams
     /\ step.actionParams[name] # 0
    THEN ToString(step.actionParams[name]) ELSE ToString(default)

\* generateStepCode (25-60).
generateStepCode(step) ==
  LET indent == "  "
      comment == indent \o "// " \o step.description \o "\n"
      healing_ == "findElementWithHealing(page, '" \o Str(step.selector) \o "', "
                    \o JsonStringify(step) \o ")"
  IN CASE step.type = "navigate" ->
            comment \o indent \o "await page.goto('"
              \o Param(step, "url", Str(step.selector)) \o "');"
       [] step.type = "click" -> comment \o indent \o "await " \o healing_ \o ".click();"
       [] step.type = "fill" ->
            comment \o indent \o "await " \o healing_ \o ".fill('"
              \o Param(step, "value", "") \o "');"
       [] step.type = "select" ->
            comment \o indent \o "await " \o healing_ \o ".selectOption('"
              \o Param(step, "value", "") \o "');"
       [] step.type = "wait" ->
            comment \o indent \o "await smartWait(page, '"
              \o Param(step, "condition", "networkidle") \o "', "
              \o ParamNumber(step, "timeout", 5000) \o ");"
       [] step.type = "assertion" ->
            comment \o indent \o "await expect(" \o healing_ \o ").toContainText('"
              \o Param(step, "expectedText", "") \o "');"
       [] step.type = "screenshot" ->
            comment \o indent \o "await page.screenshot({ path: 'test-results/"
              \o Param(step, "filename", "screenshot") \o ".png', fullPage: true });"
       [] OTHER -> indent \o "// Unknown step type: " \o step.type

\* generateImports (12-14).
generateImports == "import { test, expect, Page } from '@playwright/test';"

\* The character that opens and closes a template literal.
Backtick == SubSeq("`'", 1, 1)

\* generateHelperFunctions (62-106): the text of the two helper functions.
generateHelperFunctions ==
  "// Self-healing helper functions\n"
     \o "async function findElementWithHealing(page: Page, selector: string, fallbackSelectors: string[] = []): Promise<any> {\n"
     \o "  try {\n"
     \o "    const element = page.locator(selector);\n"
     \o "    await element.waitFor({ timeout: 5000 });\n"
     \o "    return element;\n"
     \o "  } catch (error) {\n"
     \o "    console.warn(" \o Backtick \o "Primary selector failed: ${selector}" \o Backtick \o ");\n"
     \o "    \n"
     \o "    for (const fallback of fallbackSelectors) {\n"
     \o "      try {\n"
     \o "        console.log(" \o Backtick \o "Trying fallback selector: ${fallback}" \o Backtick \o ");\n"
     \o "        const element = page.locator(fallback);\n"
     \o "        await element.waitFor({ timeout: 5000 });\n"
     \o "        return element;\n"
     \o "      } catch (fallbackError) {\n"
     \o "        console.warn(" \o Backtick \o "Fallback selector failed: ${fallback}" \o Backtick \o ");\n"
     \o "      }\n"
     \o "    }\n"
     \o "    \n"
     \o "    throw new Error(" \o Backtick \o "All selectors failed for: ${selector}" \o Backtick \o ");\n"
     \o "  }\n"
     \o "}\n"
     \o "\n"
     \o "async function smartWait(page: Page, condition: string, timeout: number = 5000): Promise<void> {\n"
     \o "  try {\n"
     \o "    switch (condition) {\n"
     \o "      case 'networkidle':\n"
     \o "        await page.waitForLoadState('networkidle', { timeout });\n"
     \o "        break;\n"
     \o "      case 'domcontentloaded':\n"
     \o "        await page.waitForLoadState('domcontentloaded', { timeout });\n"
     \o "        break;\n"
     \o "      case 'load':\n"
     \o "        await page.waitForLoadState('load', { timeout });\n"
     \o "        break;\n"
     \o "      default:\n"
     \o "        await page.waitForTimeout(timeout);\n"
     \o "    }\n"
     \o "  } catch (error) {\n"
     \o "    console.warn(" \o Backtick \o "Wait condition '${condition}' timed out, continuing..." \o Backtick \o ");\n"
     \o "  }\n"
     \o "}"

\* A variant of generateTestFunction that writes the number of steps in the first
\* line of the test.
generateTestFunctionCounted(session) ==
  LET testName == session.testName
      steps == Join([i \in DOMAIN session.steps |-> generateStepCode(session.steps[i])], "\n")
  IN "test('" \o testName \o "', async ({ page }) => { // "
       \o ToString(Len(session.steps)) \o " steps\n" \o steps \o "\n});"

\* generateTestFunction (16-23).
generateTestFunction(session) ==
  LET testName == session.testName
      steps == Join([i \in DOMAIN session.steps |-> generateStepCode(session.steps[i])], "\n")
  IN "test('" \o testName \o "', async ({ page }) => {\n" \o steps \o "\n});"

\* generatePlaywrightTest (4-10).
generatePlaywrightTest(session) ==
  LET imports == generateImports
      testFunction == generateTestFunction(session)
      helperFunctions == generateHelperFunctions
  IN imports \o "\n\n" \o testFunction \o "\n\n" \o helperFunctions

\* What the code generator and the list it is given leave alone.
renderFrame ==
  <<storeVars, driverVars, connectedClients, sessionConnections, rooms, disconnected,
    deregistered, healing, genLog, located, persisted>>

\* No statement of an exported script has run.
NoLocate ==
  [pc |-> "idle", step |-> 0, selector |-> "", fallbackSelectors |-> <<>>, next |-> 0,
   probes |-> <<>>, returned |-> "", thrown |-> ""]

\* What a run of the exported script leaves alone.
locateFrame ==
  <<storeVars, driverVars, connectedClients, sessionConnections, rooms, disconnected,
    deregistered, healing, genLog, exported, persisted>>

\* session.steps.push(step) of addStep (SessionManager.ts:221) on the session that
\* is exported.
pushStep(step) ==
  /\ Len(exported.session.steps) < MaxRenderSteps
  /\ exported' = [exported EXCEPT !.session.steps = Append(@, step)]
  /\ UNCHANGED renderFrame

\* GET /api/export/:sessionId (part_001:14-27): the code generator is called on the
\* session.
exportCode ==
  /\ LET render == [session |-> exported.session,
                    code |-> generatePlaywrightTest(exported.session)]
     IN exported' = [exported EXCEPT !.renders =
                       IF Len(@) = 2 THEN <<@[2], render>> ELSE Append(@, render)]
  /\ UNCHANGED renderFrame

\* The process has just started: c calls may be issued, clients know the ids k.
InitOf(c, k, cold) ==
  /\ activeSessions = [s \in Sessions |-> NoObj]
  /\ heap = <<>>
  /\ bindings = [s \in Sessions |-> FALSE]
  /\ page = [s \in Sessions |-> NoPage]
  /\ dbSessions = [s \in Sessions |->
                     IF s \in cold
                       THEN [status |-> "created", settings |-> DefaultSettings,
                             testName |-> FirstName]
                       ELSE NoRow]
  /\ dbSteps = {}
  /\ tasks = EmptyBag
  /\ issued = {}
  /\ known = k
  /\ nextStep = 1
  /\ calls = c
  /\ hyds = 0
  /\ onlyAdds = TRUE
  /\ plainEdits = TRUE
  /\ accepted = [s \in Sessions |-> <<>>]
  /\ stopDone = {}
  /\ deleted = {}
  /\ lastResult = NoResult
  /\ browsers = NoObj
  /\ engines = <<>>
  /\ closers = <<>>
  /\ signals = 0
  /\ shutdownCloses = [s \in Sessions |-> 0]
  /\ drained = TRUE
  /\ connectedClients = {}
  /\ sessionConnections = <<>>
  /\ rooms = [s \in Sessions |-> {}]
  /\ disconnected = {}
  /\ deregistered = {}
  /\ healing = NoHealing
  /\ genLog = <<>>
  /\ exported = [session |-> [testName |-> FirstName, steps |-> <<>>], renders |-> <<>>]
  /\ located = NoLocate
  /\ persisted = NoTrip

InitWith(c, k) == InitOf(c, k, ColdIds)

Init == InitWith(MaxCalls, ColdIds)

\* ------------------------------------------------------------------ lookups
\* getSession, memory hit (SessionManager.ts:325-326).
getSessionHit(s) == activeSessions[s] # NoObj

\* getSession, memory miss (SessionManager.ts:328-337): a detached load from the
\* durable store is started and the caller gets `undefined`, which every caller
\* turns into "Session not found".
getSessionMiss(op, s) ==
  /\ activeSessions[s] = NoObj
  /\ hyds < MaxHyd
  /\ hyds' = hyds + 1
  /\ tasks' = Spawn(tasks, Task("hydrate", s, "hyd_row", NoObj))
  /\ lastResult' = Result(Task(op, s, "-", NoObj), "SessionNotFound")

\* DatabaseService.getSession, first query: the `sessions` row (lines 35-47).
hydrateRow(t) ==
  /\ t.op = "hydrate" /\ t.pc = "hyd_row"
  /\ \/ /\ dbSessions[t.sid] # NoRow
        /\ tasks' = Move(tasks, t, [t EXCEPT !.pc = "hyd_steps",
                                            !.row = dbSessions[t.sid]])
     \/ /\ dbSessions[t.sid] = NoRow          \* PGRST116: resolves to null, nothing is set
        /\ tasks' = Drop(tasks, t)
  /\ UNCHANGED <<activeSessions, heap, bindings, page, dbSessions, dbSteps, issued, known,
                 nextStep, calls, hyds, onlyAdds, plainEdits, accepted, stopDone, deleted, lastResult>>
  /\ UNCHANGED <<driverVars, sideVars>>

\* The step rows of a session in ascending step_order (DatabaseService.ts:146-168);
\* rows that share an order index come back in either order.
SessionSteps(s) ==
  LET rows == {r \in dbSteps : r.sid = s}
      n == Cardinality(rows)
  IN {q \in [1..n -> rows] :
        /\ \A i, j \in 1..n : i # j => q[i] # q[j]
        /\ \A i, j \in 1..n : i < j => q[i].ord <= q[j].ord}

\* The TestStep built from a step row (DatabaseService.ts:159-168).
StepOfRow(r) ==
  [id |-> r.id, type |-> r.type, selector |-> r.selector, description |-> r.description,
   fallbackSelectors |-> r.fallbackSelectors]

\* DatabaseService.getSession, second query and the `.then` of getSession
\* (DatabaseService.ts:50-62, SessionManager.ts:329-333): a new TestSession object
\* is built from the row and the step rows and stored under the id.
hydrateSteps(t) ==
  /\ t.op = "hydrate" /\ t.pc = "hyd_steps"
  /\ \E q \in SessionSteps(t.sid) :
       heap' = Append(heap, [sid |-> t.sid, status |-> t.row.status,
                             steps |-> [i \in 1..Len(q) |-> StepOfRow(q[i])],
                             settings |-> t.row.settings,
                             testName |-> t.row.testName])
  /\ activeSessions' = [activeSessions EXCEPT ![t.sid] = Len(heap) + 1]
  /\ tasks' = Drop(tasks, t)
  /\ UNCHANGED <<bindings, page, dbSessions, dbSteps, issued, known, nextStep, calls, hyds,
                 onlyAdds, plainEdits, accepted, stopDone, deleted, lastResult>>
  /\ UNCHANGED <<driverVars, sideVars>>

\* ------------------------------------------------------------------ createSession
NewSession(s) ==
  [sid |-> s, status |-> "created", steps |-> <<>>, settings |-> DefaultSettings,
   testName |-> FirstName]

\* SessionManager.createSession up to `await this.browserManager.createSession`.
createSession(s) ==
  /\ s \in FreshIds \ issued
  /\ issued' = issued \cup {s}
  /\ tasks' = Spawn(tasks, Task("create", s, "create_browser", NoObj))
  /\ UNCHANGED <<activeSessions, heap, bindings, page, dbSessions, dbSteps, known, nextStep,
                 calls, hyds, onlyAdds, plainEdits, accepted, stopDone, deleted, lastResult>>
  /\ UNCHANGED <<driverVars, sideVars>>

\* The engine instance BrowserManager.createSession works on (BrowserManager.ts:12-16):
\* the one the map holds, or one it launches and puts in the map.
Launched == IF browsers = NoObj THEN Len(engines) + 1 ELSE browsers

EngineClosed(b) == engines[b].closes > 0

\* BrowserManager.createSession registers the binding (BrowserManager.ts:44-52) or
\* throws; then SessionManager stores the session and issues the insert (54-55).
\* newContext and newPage reject on an engine instance that was closed; when they
\* or the launch reject, the call throws, after a launch with the instance in the map.
createSessionBrowser(t) ==
  /\ t.op = "create" /\ t.pc = "create_browser"
  /\ \/ /\ browsers # NoObj => ~EngineClosed(browsers)
        /\ browsers' = Launched
        /\ engines' = IF browsers = NoObj THEN Append(engines, [closes |-> 0]) ELSE engines
        /\ bindings' = [bindings EXCEPT ![t.sid] = TRUE]
        /\ page' = [page EXCEPT ![t.sid] = [NoPage EXCEPT !.exists = TRUE,
                                                          !.browser = Launched]]
        /\ heap' = Append(heap, NewSession(t.sid))
        /\ activeSessions' = [activeSessions EXCEPT ![t.sid] = Len(heap) + 1]
        /\ tasks' = Move(tasks, t, [t EXCEPT !.pc = "create_db", !.ref = Len(heap) + 1])
        /\ known' = known \cup {t.sid}
        /\ lastResult' = lastResult
     \/ /\ tasks' = Drop(tasks, t)
        /\ lastResult' = Result(t, "DriverError")
        /\ \/ UNCHANGED <<browsers, engines>>
           \/ /\ browsers = NoObj
              /\ browsers' = Launched
              /\ engines' = Append(engines, [closes |-> 0])
        /\ UNCHANGED <<activeSessions, heap, bindings, page, known>>
  /\ UNCHANGED <<dbSessions, dbSteps, issued, nextStep, calls, hyds, onlyAdds, plainEdits, accepted, stopDone,
                 deleted>>
  /\ UNCHANGED <<closers, signals, shutdownCloses, drained, sideVars>>

\* SessionManager.createSession (17-51) and BrowserManager.createSession up to its
\* first await (9-18), one await at a time: the launch when the map has no engine
\* instance, newContext on the instance of the map otherwise.  The id is a new uuid.
createSessionLaunch(s) ==
  /\ s \in Sessions \ issued
  /\ dbSessions[s] = NoRow
  /\ issued' = issued \cup {s}
  /\ tasks' = Spawn(tasks, [Task("create", s, IF browsers = NoObj THEN "launch" ELSE "context",
                                 NoObj)
                             EXCEPT !.data = [browser |-> browsers]])
  /\ UNCHANGED <<activeSessions, heap, bindings, page, dbSessions, dbSteps, known, nextStep,
                 calls, hyds, onlyAdds, plainEdits, accepted, stopDone, deleted, lastResult>>
  /\ UNCHANGED <<driverVars, sideVars>>

\* launchBrowser settles (14-15): the new instance is put in the map, whatever the
\* map holds by now, and newContext is awaited on it; or the launch rejects.
launchBrowser(t) ==
  /\ t.op = "create" /\ t.pc = "launch"
  /\ \/ /\ engines' = Append(engines, [closes |-> 0])
        /\ browsers' = Len(engines) + 1
        /\ tasks' = Move(tasks, t, [t EXCEPT !.pc = "context",
                                            !.data = [browser |-> Len(engines) + 1]])
        /\ lastResult' = lastResult
     \/ /\ tasks' = Drop(tasks, t)
        /\ lastResult' = Result(t, "DriverError")
        /\ UNCHANGED <<browsers, engines>>
  /\ UNCHANGED <<activeSessions, heap, bindings, page, dbSessions, dbSteps, issued, known,
                 nextStep, calls, hyds, onlyAdds, plainEdits, accepted, stopDone, deleted>>
  /\ UNCHANGED <<closers, signals, shutdownCloses, drained, sideVars>>

\* newContext and newPage settle on the instance the call holds (19-33); the
\* binding is registered (44-52) and SessionManager stores the session and issues
\* the insert (54-55); or one of them rejects and the call throws.
createSessionContext(t) ==
  /\ t.op = "create" /\ t.pc = "context"
  /\ \/ /\ ~EngineClosed(t.data.browser)
        /\ bindings' = [bindings EXCEPT ![t.sid] = TRUE]
        /\ page' = [page EXCEPT ![t.sid] = [NoPage EXCEPT !.exists = TRUE,
                                                          !.browser = t.data.browser]]
        /\ heap' = Append(heap, NewSession(t.sid))
        /\ activeSessions' = [activeSessions EXCEPT ![t.sid] = Len(heap) + 1]
        /\ tasks' = Move(tasks, t, [t EXCEPT !.pc = "create_db", !.ref = Len(heap) + 1,
                                            !.data = NoData])
        /\ known' = known \cup {t.sid}
        /\ lastResult' = lastResult
     \/ /\ tasks' = Drop(tasks, t)
        /\ lastResult' = Result(t, "DriverError")
        /\ UNCHANGED <<activeSessions, heap, bindings, page, known>>
  /\ UNCHANGED <<dbSessions, dbSteps, issued, nextStep, calls, hyds, onlyAdds, plainEdits,
                 accepted, stopDone, deleted>>
  /\ UNCHANGED <<driverVars, sideVars>>

\* DatabaseService.createSession lands or fails (DatabaseService.ts:6-31).
createSessionDb(t) ==
  /\ t.op = "create" /\ t.pc = "create_db"
  /\ \/ /\ dbSessions' = [dbSessions EXCEPT ![t.sid] =
                            [status |-> "created", settings |-> DefaultSettings,
                             testName |-> FirstName]]
        /\ lastResult' = Result(t, "ok") /\ plainEdits' = plainEdits
     \/ /\ dbSessions' = dbSessions
        /\ lastResult' = Result(t, "DbError") /\ plainEdits' = FALSE
  /\ tasks' = Drop(tasks, t)
  /\ UNCHANGED <<activeSessions, heap, bindings, page, dbSteps, issued, known, nextStep, calls,
                 hyds, onlyAdds, accepted, stopDone, deleted>>
  /\ UNCHANGED <<driverVars, sideVars>>

\* DatabaseService.updateSession with a status (DatabaseService.ts:69-96): an update
\* that matches no row changes nothing and reports no error.
dbUpdateStatus(s, st) ==
  [dbSessions EXCEPT ![s] = IF @ = NoRow THEN @ ELSE [@ EXCEPT !.status = st]]

\* ------------------------------------------------------------------ startRecording
\* SessionManager.startRecording up to `await browserSession.page.goto` (61-73).
startRecording(s) ==
  /\ calls > 0
  /\ calls' = calls - 1
  /\ onlyAdds' = FALSE
  /\ plainEdits' = FALSE
  /\ \/ /\ getSessionMiss("start", s)
     \/ /\ getSessionHit(s) /\ ~bindings[s]
        /\ lastResult' = Result(Task("start", s, "-", NoObj), "DriverUnavailable")
        /\ UNCHANGED <<tasks, hyds>>
     \/ /\ getSessionHit(s) /\ bindings[s]
        /\ tasks' = Spawn(tasks, Task("start", s, "start_goto", activeSessions[s]))
        /\ UNCHANGED <<lastResult, hyds>>
  /\ UNCHANGED <<activeSessions, heap, bindings, page, dbSessions, dbSteps, issued, known,
                 nextStep, accepted, stopDone, deleted>>
  /\ UNCHANGED <<driverVars, sideVars>>

\* goto resolves: lines 76-78 and setupRecordingListeners up to
\* `await page.addInitScript` (92-104, the framenavigated listener is registered);
\* or goto rejects (always on a closed context) and the call throws.
startRecordingGoto(t) ==
  /\ t.op = "start" /\ t.pc = "start_goto"
  /\ \/ /\ ~page[t.sid].closed
        /\ page' = [page EXCEPT ![t.sid].isRecording = TRUE, ![t.sid].navL = @ + 1]
        /\ heap' = [heap EXCEPT ![t.ref].status = "recording"]
        /\ tasks' = Move(tasks, t, [t EXCEPT !.pc = "start_listen", !.wrote = TRUE])
        /\ lastResult' = lastResult
     \/ /\ tasks' = Drop(tasks, t)
        /\ lastResult' = Result(t, "DriverError")
        /\ UNCHANGED <<page, heap>>
  /\ UNCHANGED <<activeSessions, bindings, dbSessions, dbSteps, issued, known, nextStep, calls,
                 hyds, onlyAdds, plainEdits, accepted, stopDone, deleted>>
  /\ UNCHANGED <<driverVars, sideVars>>

\* addInitScript resolves: the console listener is registered (155-164), the session
\* is stored (84) and the status update is issued (85); or it rejects and the call
\* throws with lines 76-78 already applied.
startRecordingListeners(t) ==
  /\ t.op = "start" /\ t.pc = "start_listen"
  /\ \/ /\ ~page[t.sid].closed
        /\ page' = [page EXCEPT ![t.sid].conL = @ + 1]
        /\ activeSessions' = [activeSessions EXCEPT ![t.sid] = t.ref]
        /\ tasks' = Move(tasks, t, [t EXCEPT !.pc = "start_db"])
        /\ lastResult' = lastResult
     \/ /\ tasks' = Drop(tasks, t)
        /\ lastResult' = Result(t, "DriverError")
        /\ UNCHANGED <<page, activeSessions>>
  /\ UNCHANGED <<heap, bindings, dbSessions, dbSteps, issued, known, nextStep, calls, hyds,
                 onlyAdds, plainEdits, accepted, stopDone, deleted>>
  /\ UNCHANGED <<driverVars, sideVars>>

startRecordingDb(t) ==
  /\ t.op = "start" /\ t.pc = "start_db"
  /\ \/ /\ dbSessions' = dbUpdateStatus(t.sid, "recording")
        /\ lastResult' = Result(t, "ok") /\ plainEdits' = plainEdits
     \/ /\ dbSessions' = dbSessions
        /\ lastResult' = Result(t, "DbError") /\ plainEdits' = FALSE
  /\ tasks' = Drop(tasks, t)
  /\ UNCHANGED <<activeSessions, heap, bindings, page, dbSteps, issued, known, nextStep, calls,
                 hyds, onlyAdds, accepted, stopDone, deleted>>
  /\ UNCHANGED <<driverVars, sideVars>>

\* ------------------------------------------------------------------ pause / stop
\* The synchronous part shared by pauseRecording (273-288) and stopRecording
\* (293-308): status is assigned whatever it was, the binding's flag is cleared if
\* the registry holds a binding, the session is stored, the update is issued.
setStatus(op, s, st, pc) ==
  /\ calls > 0
  /\ calls' = calls - 1
  /\ onlyAdds' = FALSE
  /\ plainEdits' = FALSE
  /\ \/ /\ getSessionMiss(op, s)
        /\ UNCHANGED <<heap, page>>
     \/ /\ getSessionHit(s)
        /\ heap' = [heap EXCEPT ![activeSessions[s]].status = st]
        /\ page' = IF bindings[s] THEN [page EXCEPT ![s].isRecording = FALSE] ELSE page
        /\ tasks' = Spawn(tasks, [Task(op, s, pc, activeSessions[s])
                                    EXCEPT !.wrote = TRUE])
        /\ UNCHANGED <<lastResult, hyds>>
  /\ UNCHANGED <<activeSessions, bindings, dbSessions, dbSteps, issued, known, nextStep,
                 accepted, stopDone, deleted>>
  /\ UNCHANGED <<driverVars, sideVars>>

pauseRecording(s) == setStatus("pause", s, "paused", "pause_db")

stopRecording(s) == setStatus("stop", s, "stopped", "stop_db")

pauseRecordingDb(t) ==
  /\ t.op = "pause" /\ t.pc = "pause_db"
  /\ \/ /\ dbSessions' = dbUpdateStatus(t.sid, "paused")
        /\ lastResult' = Result(t, "ok") /\ plainEdits' = plainEdits
     \/ /\ dbSessions' = dbSessions
        /\ lastResult' = Result(t, "DbError") /\ plainEdits' = FALSE
  /\ tasks' = Drop(tasks, t)
  /\ UNCHANGED <<activeSessions, heap, bindings, page, dbSteps, issued, known, nextStep, calls,
                 hyds, onlyAdds, accepted, stopDone, deleted>>
  /\ UNCHANGED <<driverVars, sideVars>>

stopRecordingDb(t) ==
  /\ t.op = "stop" /\ t.pc = "stop_db"
  /\ \/ /\ dbSessions' = dbUpdateStatus(t.sid, "stopped")
        /\ lastResult' = Result(t, "ok") /\ plainEdits' = plainEdits
        /\ stopDone' = stopDone \cup {t.sid}
     \/ /\ dbSessions' = dbSessions
        /\ lastResult' = Result(t, "DbError") /\ plainEdits' = FALSE
        /\ stopDone' = stopDone
  /\ tasks' = Drop(tasks, t)
  /\ UNCHANGED <<activeSessions, heap, bindings, page, dbSteps, issued, known, nextStep, calls,
                 hyds, onlyAdds, accepted, deleted>>
  /\ UNCHANGED <<driverVars, sideVars>>

\* ------------------------------------------------------------------ deleteSession
\* Ghost bookkeeping: the insertions of session s that are suspended before their
\* append when the binding of s leaves the registry are flagged `lost`.
MarkLost(b, s) ==
  LET hit(t) == t.op = "addStep" /\ t.sid = s /\ t.pc = "add_fb"
      mark(t) == IF hit(t) THEN [t EXCEPT !.lost = TRUE] ELSE t
      old == BagToSet(b)
      count(u) == (IF u \in old /\ mark(u) = u THEN b[u] ELSE 0)
                  + (IF hit(u) /\ u.lost /\ [u EXCEPT !.lost = FALSE] \in old
                       THEN b[[u EXCEPT !.lost = FALSE]] ELSE 0)
  IN [u \in {mark(t) : t \in old} |-> count(u)]

\* SessionManager.deleteSession up to its first await (313-315): closeSession awaits
\* context.close() when the registry holds a binding (BrowserManager.ts:92-95);
\* without one it returns at once and lines 318-319 follow.
deleteSession(s) ==
  /\ calls > 0
  /\ calls' = calls - 1
  /\ onlyAdds' = FALSE
  /\ plainEdits' = FALSE
  /\ \/ /\ bindings[s]
        /\ tasks' = Spawn(tasks, Task("delete", s, "del_close", NoObj))
        /\ UNCHANGED activeSessions
     \/ /\ ~bindings[s]
        /\ activeSessions' = [activeSessions EXCEPT ![s] = NoObj]
        /\ tasks' = Spawn(tasks, Task("delete", s, "del_db", NoObj))
  /\ UNCHANGED <<heap, bindings, page, dbSessions, dbSteps, issued, known, nextStep, hyds,
                 accepted, stopDone, deleted, lastResult>>
  /\ UNCHANGED <<driverVars, sideVars>>

\* context.close() resolves and the binding leaves the registry (96), or it rejects
\* and the error is only logged (98-100); either way closeSession returns and the
\* session leaves memory and the durable delete is issued (318-319).
deleteSessionClose(t) ==
  /\ t.op = "delete" /\ t.pc = "del_close"
  /\ \/ /\ bindings' = [bindings EXCEPT ![t.sid] = FALSE]
        /\ page' = [page EXCEPT ![t.sid].closed = TRUE]
        /\ tasks' = Move(MarkLost(tasks, t.sid), t, [t EXCEPT !.pc = "del_db"])
     \/ /\ tasks' = Move(tasks, t, [t EXCEPT !.pc = "del_db"])
        /\ UNCHANGED <<bindings, page>>
  /\ activeSessions' = [activeSessions EXCEPT ![t.sid] = NoObj]
  /\ UNCHANGED <<heap, dbSessions, dbSteps, issued, known, nextStep, calls, hyds, onlyAdds, plainEdits, accepted,
                 stopDone, deleted, lastResult>>
  /\ UNCHANGED <<driverVars, sideVars>>

\* DatabaseService.deleteSession lands or fails (98-115); the step rows of the
\* session go with its row (FOREIGN KEY ... ON DELETE CASCADE).
deleteSessionDb(t) ==
  /\ t.op = "delete" /\ t.pc = "del_db"
  /\ \/ /\ dbSessions' = [dbSessions EXCEPT ![t.sid] = NoRow]
        /\ dbSteps' = {r \in dbSteps : r.sid # t.sid}
        /\ deleted' = deleted \cup {t.sid}
        /\ lastResult' = Result(t, "ok") /\ plainEdits' = plainEdits
     \/ /\ lastResult' = Result(t, "DbError") /\ plainEdits' = FALSE
        /\ UNCHANGED <<dbSessions, dbSteps, deleted>>
  /\ tasks' = Drop(tasks, t)
  /\ UNCHANGED <<activeSessions, heap, bindings, page, issued, known, nextStep, calls, hyds,
                 onlyAdds, accepted, stopDone>>
  /\ UNCHANGED <<driverVars, sideVars>>

\* ------------------------------------------------------------------ shutdown
\* Ghost bookkeeping of MarkLost for every session of a set.
RECURSIVE MarkLostAll(_, _)
MarkLostAll(b, S) ==
  IF S = {} THEN b
  ELSE LET s == CHOOSE x \in S : TRUE IN MarkLostAll(MarkLost(b, s), S \ {s})

Registered == {s \in Sessions : bindings[s]}

\* The contexts that are open on engine instance b.
OpenOn(pg, b) == {s \in Sessions : pg[s].exists /\ ~pg[s].closed /\ pg[s].browser = b}

\* BrowserManager.closeAll from `await Promise.all(closePromises)` on, for a call
\* numbered k whose closeSession calls have all returned (111-117 and, with no
\* engine instance in the map, 119-120 and the handler's server.close): close() is
\* called on every engine instance of the map, which closes the contexts on it.
closeBrowsers(k, cl, bnd, pg) ==
  IF browsers = NoObj
    THEN /\ closers' = [cl EXCEPT ![k].pc = "done"]
         /\ bindings' = [s \in Sessions |-> FALSE]
         /\ tasks' = MarkLostAll(tasks, {s \in Sessions : bnd[s]})
         /\ page' = pg
         /\ UNCHANGED <<engines, drained>>
    ELSE /\ closers' = [cl EXCEPT ![k].pc = "browsers"]
         /\ engines' = [engines EXCEPT ![browsers].closes = @ + 1]
         /\ drained' = (drained /\ OpenOn(pg, browsers) = {})
         /\ page' = [s \in Sessions |->
                       IF s \in OpenOn(pg, browsers) THEN [pg[s] EXCEPT !.closed = TRUE]
                       ELSE pg[s]]
         /\ bindings' = bnd
         /\ tasks' = MarkLostAll(tasks, {s \in Sessions : bindings[s] /\ ~bnd[s]})

\* A SIGTERM or SIGINT arrives (part_002:114-116, 123-125): the handler calls
\* closeAll, which calls closeSession for every id of the registry; each of these
\* calls context.close() and is suspended on it (BrowserManager.ts:92-95, 108-111).
\* With an empty registry nothing is awaited and closeAll goes on at once.
signal ==
  /\ signals < MaxSignals
  /\ signals' = signals + 1
  /\ shutdownCloses' = [s \in Sessions |->
                          IF s \in Registered THEN shutdownCloses[s] + 1
                          ELSE shutdownCloses[s]]
  /\ LET cl == Append(closers, [pc |-> "sessions", pending |-> Registered])
     IN IF Registered = {}
          THEN closeBrowsers(Len(cl), cl, bindings, page)
          ELSE /\ closers' = cl
               /\ UNCHANGED <<bindings, page, tasks, engines, drained>>
  /\ UNCHANGED <<activeSessions, heap, dbSessions, dbSteps, issued, known, nextStep, calls,
                 hyds, onlyAdds, plainEdits, accepted, stopDone, deleted, lastResult,
                 browsers, sideVars>>

\* The context.close() of closeSession(s), called by closeAll call k, settles: it
\* resolves and the binding leaves the registry (96), or it rejects and the error is
\* only logged (98-100).  When it was the last one closeAll waits for, closeAll goes on.
closeAllSession(k, s) ==
  /\ closers[k].pc = "sessions" /\ s \in closers[k].pending
  /\ \E resolves \in BOOLEAN :
       LET cl == [closers EXCEPT ![k].pending = @ \ {s}]
           bnd == IF resolves THEN [bindings EXCEPT ![s] = FALSE] ELSE bindings
           pg == IF resolves THEN [page EXCEPT ![s].closed = TRUE] ELSE page
       IN IF cl[k].pending = {}
            THEN closeBrowsers(k, cl, bnd, pg)
            ELSE /\ closers' = cl
                 /\ bindings' = bnd
                 /\ page' = pg
                 /\ tasks' = MarkLostAll(tasks, {x \in Sessions : bindings[x] /\ ~bnd[x]})
                 /\ UNCHANGED <<engines, drained>>
  /\ UNCHANGED <<activeSessions, heap, dbSessions, dbSteps, issued, known, nextStep, calls,
                 hyds, onlyAdds, plainEdits, accepted, stopDone, deleted, lastResult,
                 browsers, signals, shutdownCloses, sideVars>>

\* The browser.close() calls of closeAll call k settle: they resolve, both maps are
\* cleared (119-120) and the handler calls server.close (part_002:117); or one
\* rejects and closeAll throws with the maps as they are.
closeAllBrowsers(k) ==
  /\ closers[k].pc = "browsers"
  /\ \/ /\ closers' = [closers EXCEPT ![k].pc = "done"]
        /\ browsers' = NoObj
        /\ bindings' = [s \in Sessions |-> FALSE]
        /\ tasks' = MarkLostAll(tasks, Registered)
     \/ /\ closers' = [closers EXCEPT ![k].pc = "failed"]
        /\ UNCHANGED <<browsers, bindings, tasks>>
  /\ UNCHANGED <<activeSessions, heap, page, dbSessions, dbSteps, issued, known, nextStep,
                 calls, hyds, onlyAdds, plainEdits, accepted, stopDone, deleted, lastResult,
                 engines, signals, shutdownCloses, drained, sideVars>>

\* What the handlers of the push channel leave alone, apart from its own maps.
socketFrame == <<storeVars, driverVars, healing, genLog, exported, located, persisted>>

\* ------------------------------------------------------------------ push channel
\* io.on('connection') (WebSocketManager.ts:18-20).
connection(k) ==
  /\ k \in Sockets \ (connectedClients \cup disconnected)
  /\ connectedClients' = connectedClients \cup {k}
  /\ UNCHANGED <<socketFrame, sessionConnections, rooms, disconnected,
                 deregistered>>

\* Map.set / Map.delete on sessionConnections.
SetKey(m, s, v) == [x \in DOMAIN m \cup {s} |-> IF x = s THEN v ELSE m[x]]
DeleteKey(m, s) == [x \in DOMAIN m \ {s} |-> m[x]]

\* connections.delete(socket.id) and the delete of the set when it is empty
\* (lines 41-44 and 170-173).
DropSocket(m, s, k) ==
  IF s \notin DOMAIN m THEN m
  ELSE IF m[s] \ {k} = {} THEN DeleteKey(m, s)
  ELSE SetKey(m, s, m[s] \ {k})

\* 'join-session' (23-33); the session id is whatever the client sends.
joinSession(k, s) ==
  /\ k \in connectedClients
  /\ rooms' = [rooms EXCEPT ![s] = @ \cup {k}]
  /\ sessionConnections' =
       SetKey(sessionConnections, s,
              (IF s \in DOMAIN sessionConnections THEN sessionConnections[s] ELSE {})
                \cup {k})
  /\ UNCHANGED <<socketFrame, connectedClients, disconnected, deregistered>>

\* 'leave-session' (36-48).
leaveSession(k, s) ==
  /\ k \in connectedClients
  /\ rooms' = [rooms EXCEPT ![s] = @ \ {k}]
  /\ sessionConnections' = DropSocket(sessionConnections, s, k)
  /\ deregistered' = deregistered \cup
                       (IF k \in rooms[s] THEN {<<k, s>>} ELSE {})
  /\ UNCHANGED <<socketFrame, connectedClients, disconnected>>

\* The loop of the disconnect handler over the entries of the map (169-174).
RECURSIVE DropEverywhere(_, _, _)
DropEverywhere(m, S, k) ==
  IF S = {} THEN m
  ELSE LET s == CHOOSE x \in S : TRUE
       IN DropEverywhere(DropSocket(m, s, k), S \ {s}, k)

\* A variant of the disconnect handler that leaves the emptied sets in the map.
disconnectKeepsSets(k) ==
  /\ k \in connectedClients
  /\ connectedClients' = connectedClients \ {k}
  /\ rooms' = [s \in Sessions |-> rooms[s] \ {k}]
  /\ sessionConnections' = [s \in DOMAIN sessionConnections |-> sessionConnections[s] \ {k}]
  /\ disconnected' = disconnected \cup {k}
  /\ deregistered' = deregistered \cup {<<k, s>> : s \in {x \in Sessions : k \in rooms[x]}}
  /\ UNCHANGED <<socketFrame>>

\* 'disconnect' (164-175); socket.io takes the socket out of the rooms it joined.
disconnect(k) ==
  /\ k \in connectedClients
  /\ connectedClients' = connectedClients \ {k}
  /\ rooms' = [s \in Sessions |-> rooms[s] \ {k}]
  /\ sessionConnections' = DropEverywhere(sessionConnections, DOMAIN sessionConnections, k)
  /\ disconnected' = disconnected \cup {k}
  /\ deregistered' = deregistered \cup {<<k, s>> : s \in {x \in Sessions : k \in rooms[x]}}
  /\ UNCHANGED <<socketFrame>>

\* ------------------------------------------------------------------ addStep
\* The step data of the calls: a click on the page's submit button (REST, socket or
\* recorded click), a fill of a second element, a main-frame navigation.
ClickSubmit ==
  [type |-> "click", selector |-> <<"#", "submit-button">>,
   description |-> "Click on #submit-button"]
FillAlt ==
  [type |-> "fill", selector |-> <<".", "alt-button">>, description |-> "Fill .alt-button"]
Navigate == [type |-> "navigate", selector |-> <<>>, description |-> "Navigate to url"]

\* Lines 207-211: generateFallbackSelectors is called with the strategies the session
\* has at the call; its result only depends on these arguments.
WithFallbacks_(stepData, strategies) ==
  [type |-> stepData.type, selector |-> stepData.selector,
   description |-> stepData.description,
   fallbackSelectors |->
     generateFallbackSelectors(stepData.selector, stepData.type, strategies)]

WithFallbacks(s, stepData) ==
  WithFallbacks_(stepData, heap[activeSessions[s]].settings.healingStrategies)

\* The TestStep of lines 213-218.
NewStep(id, data) ==
  [id |-> id, type |-> data.type, selector |-> data.selector,
   description |-> data.description, fallbackSelectors |-> data.fallbackSelectors]

\* SessionManager.addStep up to `await generateFallbackSelectors` (200-211), called
\* by the REST route or the socket handler.
addStep(s, stepData) ==
  /\ calls > 0
  /\ calls' = calls - 1
  /\ \/ /\ getSessionMiss("addStep", s)
     \/ /\ getSessionHit(s)
        /\ tasks' = Spawn(tasks, [Task("addStep", s, "add_fb", activeSessions[s])
                                    EXCEPT !.data = WithFallbacks(s, stepData)])
        /\ UNCHANGED <<lastResult, hyds>>
  /\ UNCHANGED <<activeSessions, heap, bindings, page, dbSessions, dbSteps, issued, known,
                 nextStep, onlyAdds, plainEdits, accepted, stopDone, deleted>>
  /\ UNCHANGED <<driverVars, sideVars>>

\* Lines 213-226: the step gets its uuid, is pushed on the session object the call
\* looked up, that object is stored under the id and the insert is issued with
\* order index length - 1.
addStepAppend(t) ==
  /\ t.op = "addStep" /\ t.pc = "add_fb"
  /\ heap' = [heap EXCEPT ![t.ref].steps = Append(@, NewStep(nextStep, t.data))]
  /\ activeSessions' = [activeSessions EXCEPT ![t.sid] = t.ref]
  /\ accepted' = [accepted EXCEPT ![t.sid] =
                    Append(@, [id |-> nextStep, src |-> t.chan, late |-> t.late,
                               lost |-> t.lost])]
  /\ nextStep' = nextStep + 1
  /\ tasks' = Move(tasks, t, [t EXCEPT !.pc = "add_db", !.step = nextStep,
                                      !.ord = Len(heap[t.ref].steps),
                                      !.wrote = TRUE])
  /\ UNCHANGED <<bindings, page, dbSessions, dbSteps, issued, known, calls, hyds, onlyAdds, plainEdits, stopDone,
                 deleted, lastResult>>
  /\ UNCHANGED <<driverVars, sideVars>>

\* A variant of addStepDb that takes the step back out of memory when the insert
\* fails; the code has no such compensation.
addStepDbUndo(t) ==
  /\ t.op = "addStep" /\ t.pc = "add_db"
  /\ \/ /\ dbSessions[t.sid] # NoRow
        /\ dbSteps' = dbSteps \cup {[id |-> t.step, sid |-> t.sid, ord |-> t.ord,
                                     type |-> t.data.type, selector |-> t.data.selector,
                                     description |-> t.data.description,
                                     fallbackSelectors |-> t.data.fallbackSelectors]}
        /\ lastResult' = Result(t, "ok") /\ plainEdits' = plainEdits
        /\ heap' = heap
     \/ /\ dbSteps' = dbSteps
        /\ lastResult' = Result(t, "DbError") /\ plainEdits' = FALSE
        /\ LET keep(st) == st.id # t.step
           IN heap' = [heap EXCEPT ![t.ref].steps = SelectSeq(@, keep)]
  /\ tasks' = Drop(tasks, t)
  /\ UNCHANGED <<activeSessions, bindings, page, dbSessions, issued, known, nextStep,
                 calls, hyds, onlyAdds, accepted, stopDone, deleted>>
  /\ UNCHANGED <<driverVars, sideVars>>

\* DatabaseService.addStep lands or fails (117-144); the insert needs the session's
\* row (steps.session_id REFERENCES sessions).
addStepDb(t) ==
  /\ t.op = "addStep" /\ t.pc = "add_db"
  /\ \/ /\ dbSessions[t.sid] # NoRow
        /\ dbSteps' = dbSteps \cup {[id |-> t.step, sid |-> t.sid, ord |-> t.ord,
                                     type |-> t.data.type, selector |-> t.data.selector,
                                     description |-> t.data.description,
                                     fallbackSelectors |-> t.data.fallbackSelectors]}
        /\ lastResult' = Result(t, "ok") /\ plainEdits' = plainEdits
     \/ /\ dbSteps' = dbSteps
        /\ lastResult' = Result(t, "DbError") /\ plainEdits' = FALSE
  /\ tasks' = Drop(tasks, t)
  /\ UNCHANGED <<activeSessions, heap, bindings, page, dbSessions, issued, known, nextStep,
                 calls, hyds, onlyAdds, accepted, stopDone, deleted>>
  /\ UNCHANGED <<driverVars, sideVars>>

\* ------------------------------------------------------------------ driver events
\* One event of the page: a main-frame navigation ("nav", listener of 92-101) or a
\* PLAYWRIGHT_RECORD console message ("console", listener of 155-164 and
\* handleRecordedEvent 167-198).  Every registered listener calls addStep, which
\* runs up to its first await; neither listener reads status or isRecording.
EventStep(kind) == IF kind = "nav" THEN Navigate ELSE ClickSubmit

Listeners(s, kind) == IF kind = "nav" THEN page[s].navL ELSE page[s].conL

driverEvent(s, kind) ==
  /\ calls > 0
  /\ page[s].exists /\ ~page[s].closed
  /\ Listeners(s, kind) >= 1
  /\ calls' = calls - 1
  /\ \/ /\ getSessionHit(s)
        /\ tasks' = tasks (+) [x \in {[Task("addStep", s, "add_fb", activeSessions[s])
                                         EXCEPT !.chan = "driver",
                                                !.late = (s \in stopDone),
                                                !.data = WithFallbacks(s, EventStep(kind))]}
                                 |-> Listeners(s, kind)]
        /\ hyds' = hyds
     \/ /\ ~getSessionHit(s)
        /\ hyds + Listeners(s, kind) <= MaxHyd
        /\ hyds' = hyds + Listeners(s, kind)
        /\ tasks' = tasks (+) [x \in {Task("hydrate", s, "hyd_row", NoObj)}
                                 |-> Listeners(s, kind)]
  /\ UNCHANGED <<activeSessions, heap, bindings, page, dbSessions, dbSteps, issued, known,
                 nextStep, onlyAdds, plainEdits, accepted, stopDone, deleted, lastResult>>
  /\ UNCHANGED <<driverVars, sideVars>>

\* ------------------------------------------------------------------ step editing
\* { ...a, ...b }: the fields of b win.
Merge(a, b) ==
  [k \in DOMAIN a \cup DOMAIN b |-> IF k \in DOMAIN b THEN b[k] ELSE a[k]]

\* steps.findIndex(s => s.id === stepId), 0 for -1.
FindIndex(steps, stepId) ==
  LET at == {i \in DOMAIN steps : steps[i].id = stepId}
  IN IF at = {} THEN 0 ELSE CHOOSE i \in at : \A j \in at : i <= j

\* The payloads of updateStep: a new primary selector, a new description (both
\* pass the REST validation), a fallback list (socket `step:update`, whose
\* payload is not validated).
NewSelector == [selector |-> <<".", "alt-button">>]
NewDescription == [description |-> "Press the button"]
NewFallbacks == [fallbackSelectors |-> <<"text=Submit">>]
StepUpdates == {NewSelector, NewDescription, NewFallbacks}
\* The step ids a client names: the uuid of a step that was appended (clients read
\* them from GET /:sessionId/steps and from the broadcasts), or one no step has.
NoSuchStep == 99
NamedSteps == 1..(nextStep - 1) \cup {NoSuchStep}

\* SessionManager.updateStep up to `await this.db.updateStep` (232-250).
updateStep(s, stepId, updates) ==
  /\ calls > 0
  /\ calls' = calls - 1
  /\ onlyAdds' = FALSE
  /\ plainEdits' = FALSE
  /\ \/ /\ getSessionMiss("updateStep", s)
        /\ UNCHANGED heap
     \/ /\ getSessionHit(s)
        /\ LET ref == activeSessions[s]
               stepIndex == FindIndex(heap[ref].steps, stepId)
               call == [Task("updateStep", s, "upd_db", ref)
                          EXCEPT !.step = stepId, !.data = updates,
                                 !.found = (stepIndex # 0)]
           IN IF stepIndex = 0
                THEN /\ lastResult' = Result(call, "StepNotFound")
                     /\ UNCHANGED <<heap, tasks>>
                ELSE /\ heap' = [heap EXCEPT ![ref].steps[stepIndex] = Merge(@, updates)]
                     /\ tasks' = Spawn(tasks, [call EXCEPT !.wrote = TRUE])
                     /\ UNCHANGED lastResult
        /\ UNCHANGED hyds
  /\ UNCHANGED <<activeSessions, bindings, page, dbSessions, dbSteps, issued, known, nextStep,
                 accepted, stopDone, deleted>>
  /\ UNCHANGED <<driverVars, sideVars>>

\* The columns DatabaseService.updateStep writes (177-183): a field is written if
\* the payload has it and it is truthy.
RowUpdate(r, updates) ==
  [r EXCEPT
     !.selector = IF "selector" \in DOMAIN updates /\ updates.selector # <<>>
                    THEN updates.selector ELSE @,
     !.description = IF "description" \in DOMAIN updates /\ updates.description # ""
                       THEN updates.description ELSE @,
     !.fallbackSelectors = IF "fallbackSelectors" \in DOMAIN updates
                             THEN updates.fallbackSelectors ELSE @]

\* DatabaseService.updateStep lands or fails (175-200): the rows with the step id,
\* of whatever session, are updated.
updateStepDb(t) ==
  /\ t.op = "updateStep" /\ t.pc = "upd_db"
  /\ \/ /\ dbSteps' = {IF r.id = t.step THEN RowUpdate(r, t.data) ELSE r : r \in dbSteps}
        /\ lastResult' = Result(t, "ok") /\ plainEdits' = plainEdits
     \/ /\ dbSteps' = dbSteps
        /\ lastResult' = Result(t, "DbError") /\ plainEdits' = FALSE
  /\ tasks' = Drop(tasks, t)
  /\ UNCHANGED <<activeSessions, heap, bindings, page, dbSessions, issued, known, nextStep,
                 calls, hyds, onlyAdds, accepted, stopDone, deleted>>
  /\ UNCHANGED <<driverVars, sideVars>>

\* SessionManager.removeStep up to `await this.db.deleteStep` (256-268): the list is
\* filtered, whether or not the id is in it.
removeStep(s, stepId) ==
  /\ calls > 0
  /\ calls' = calls - 1
  /\ onlyAdds' = FALSE
  /\ plainEdits' = plainEdits
  /\ \/ /\ getSessionMiss("removeStep", s)
        /\ UNCHANGED heap
     \/ /\ getSessionHit(s)
        /\ LET ref == activeSessions[s]
               keep(st) == st.id # stepId
           IN /\ heap' = [heap EXCEPT ![ref].steps = SelectSeq(@, keep)]
              /\ tasks' = Spawn(tasks, [Task("removeStep", s, "rem_db", ref)
                                          EXCEPT !.step = stepId, !.wrote = TRUE,
                                                 !.found = (FindIndex(heap[ref].steps,
                                                                      stepId) # 0)])
        /\ UNCHANGED <<lastResult, hyds>>
  /\ UNCHANGED <<activeSessions, bindings, page, dbSessions, dbSteps, issued, known, nextStep,
                 accepted, stopDone, deleted>>
  /\ UNCHANGED <<driverVars, sideVars>>

\* DatabaseService.deleteStep lands or fails (202-219): delete where id = stepId.
removeStepDb(t) ==
  /\ t.op = "removeStep" /\ t.pc = "rem_db"
  /\ \/ /\ dbSteps' = {r \in dbSteps : r.id # t.step}
        /\ lastResult' = Result(t, "ok") /\ plainEdits' = plainEdits
     \/ /\ dbSteps' = dbSteps
        /\ lastResult' = Result(t, "DbError") /\ plainEdits' = FALSE
  /\ tasks' = Drop(tasks, t)
  /\ UNCHANGED <<activeSessions, heap, bindings, page, dbSessions, issued, known, nextStep,
                 calls, hyds, onlyAdds, accepted, stopDone, deleted>>
  /\ UNCHANGED <<driverVars, sideVars>>

\* The payload of updateSettings: other healing strategies.
NewStrategies == [healingStrategies |-> <<"semantic_similarity", "attribute_matching">>]

\* A variant of updateSettings that generates the fallback locators of the steps
\* the session has anew with the strategies it is given; the code leaves the steps
\* alone.
updateSettingsRehealing(s, settings) ==
  /\ calls > 0
  /\ calls' = calls - 1
  /\ onlyAdds' = FALSE
  /\ plainEdits' = FALSE
  /\ \/ /\ getSessionMiss("updateSettings", s)
        /\ UNCHANGED heap
     \/ /\ getSessionHit(s)
        /\ LET ref == activeSessions[s]
               merged == Merge(heap[ref].settings, settings)
               steps == heap[ref].steps
           IN /\ heap' = [heap EXCEPT
                            ![ref].settings = merged,
                            ![ref].steps =
                              [i \in DOMAIN steps |->
                                 [steps[i] EXCEPT !.fallbackSelectors =
                                    generateFallbackSelectors(steps[i].selector,
                                                              steps[i].type,
                                                              merged.healingStrategies)]]]
              /\ tasks' = Spawn(tasks, [Task("updateSettings", s, "set_db", ref)
                                          EXCEPT !.wrote = TRUE, !.data = merged])
        /\ UNCHANGED <<lastResult, hyds>>
  /\ UNCHANGED <<activeSessions, bindings, page, dbSessions, dbSteps, issued, known, nextStep,
                 accepted, stopDone, deleted>>
  /\ UNCHANGED <<driverVars, sideVars>>

\* SessionManager.updateSettings up to `await this.db.updateSession` (369-379).
updateSettings(s, settings) ==
  /\ calls > 0
  /\ calls' = calls - 1
  /\ onlyAdds' = FALSE
  /\ plainEdits' = FALSE
  /\ \/ /\ getSessionMiss("updateSettings", s)
        /\ UNCHANGED heap
     \/ /\ getSessionHit(s)
        /\ LET ref == activeSessions[s]
           IN /\ heap' = [heap EXCEPT ![ref].settings = Merge(@, settings)]
              /\ tasks' = Spawn(tasks, [Task("updateSettings", s, "set_db", ref)
                                          EXCEPT !.wrote = TRUE,
                                                 !.data = Merge(heap[ref].settings, settings)])
        /\ UNCHANGED <<lastResult, hyds>>
  /\ UNCHANGED <<activeSessions, bindings, page, dbSessions, dbSteps, issued, known, nextStep,
                 accepted, stopDone, deleted>>
  /\ UNCHANGED <<driverVars, sideVars>>

\* DatabaseService.updateSession with the settings lands or fails (69-96).
updateSettingsDb(t) ==
  /\ t.op = "updateSettings" /\ t.pc = "set_db"
  /\ \/ /\ dbSessions' = [dbSessions EXCEPT ![t.sid] =
                            IF @ = NoRow THEN @ ELSE [@ EXCEPT !.settings = t.data]]
        /\ lastResult' = Result(t, "ok") /\ plainEdits' = plainEdits
     \/ /\ dbSessions' = dbSessions
        /\ lastResult' = Result(t, "DbError") /\ plainEdits' = FALSE
  /\ tasks' = Drop(tasks, t)
  /\ UNCHANGED <<activeSessions, heap, bindings, page, dbSteps, issued, known, nextStep, calls,
                 hyds, onlyAdds, accepted, stopDone, deleted>>
  /\ UNCHANGED <<driverVars, sideVars>>

\* Two more payloads of updateSettings: the attribute and the text strategy only.
TwoStrategies == [healingStrategies |-> <<"attribute_matching", "text_content_matching">>]
TwoStrategiesSwapped ==
  [healingStrategies |-> <<"text_content_matching", "attribute_matching">>]

\* Partial settings that name another key, and both keys.
ScreenshotAlways == [screenshotMode |-> "always"]
StrategiesAndScreenshot ==
  [healingStrategies |-> <<"text_content_matching">>, screenshotMode |-> "none"]
SettingsPayloads == {NewStrategies, ScreenshotAlways, StrategiesAndScreenshot}

\* The body of PUT /:sessionId: a new display name.
NewName == [testName |-> "checkout v2"]

\* PUT /:sessionId (sessionRoutes.ts:65-97): the handler assigns the fields on the
\* session object getSession returned and answers; it has no await.
updateSession(s, updates) ==
  /\ calls > 0
  /\ calls' = calls - 1
  /\ onlyAdds' = FALSE
  /\ plainEdits' = FALSE
  /\ \/ /\ getSessionMiss("updateSession", s)
        /\ UNCHANGED heap
     \/ /\ getSessionHit(s)
        /\ heap' = [heap EXCEPT ![activeSessions[s]].testName =
                      IF "testName" \in DOMAIN updates /\ updates.testName # ""
                        THEN updates.testName ELSE @]
        /\ lastResult' = Result([Task("updateSession", s, "-", activeSessions[s])
                                   EXCEPT !.wrote = TRUE], "ok")
        /\ UNCHANGED <<tasks, hyds>>
  /\ UNCHANGED <<activeSessions, bindings, page, dbSessions, dbSteps, issued, known, nextStep,
                 accepted, stopDone, deleted>>
  /\ UNCHANGED <<driverVars, sideVars>>

\* ------------------------------------------------------------------ specification
Next ==
  \/ \E s \in Sessions : createSession(s)
  \/ \E s \in known : startRecording(s)
  \/ \E s \in known : pauseRecording(s)
  \/ \E s \in known : stopRecording(s)
  \/ \E s \in known : deleteSession(s)
  \/ \E s \in known : addStep(s, ClickSubmit)
  \/ \E s \in Sessions, kind \in {"nav", "console"} : driverEvent(s, kind)
  \/ \E t \in Running : createSessionBrowser(t)
  \/ \E t \in Running : createSessionDb(t)
  \/ \E t \in Running : startRecordingGoto(t)
  \/ \E t \in Running : startRecordingListeners(t)
  \/ \E t \in Running : startRecordingDb(t)
  \/ \E t \in Running : pauseRecordingDb(t)
  \/ \E t \in Running : stopRecordingDb(t)
  \/ \E t \in Running : deleteSessionClose(t)
  \/ \E t \in Running : deleteSessionDb(t)
  \/ \E t \in Running : addStepAppend(t)
  \/ \E t \in Running : addStepDb(t)
  \/ \E t \in Running : hydrateRow(t)
  \/ \E t \in Running : hydrateSteps(t)

Spec == Init /\ [][Next]_vars

\* The step editor on sessions created by this process: no session is known to the
\* clients before createSession has stored it, MaxEdits calls may be issued.
InitEdit == InitWith(MaxEdits, {})

NextEdit ==
  \/ \E s \in Sessions : createSession(s)
  \/ \E s \in known, stepData \in {ClickSubmit, FillAlt} : addStep(s, stepData)
  \/ \E s \in known, stepId \in NamedSteps, updates \in StepUpdates :
       updateStep(s, stepId, updates)
  \/ \E s \in known, stepId \in NamedSteps : removeStep(s, stepId)
  \/ \E s \in known : updateSettings(s, NewStrategies)
  \/ \E s \in known : updateSession(s, NewName)
  \/ \E s \in known : pauseRecording(s)
  \/ \E t \in Running : createSessionBrowser(t)
  \/ \E t \in Running : createSessionDb(t)
  \/ \E t \in Running : addStepAppend(t)
  \/ \E t \in Running : addStepDb(t)
  \/ \E t \in Running : updateStepDb(t)
  \/ \E t \in Running : removeStepDb(t)
  \/ \E t \in Running : updateSettingsDb(t)
  \/ \E t \in Running : pauseRecordingDb(t)

SpecEdit == InitEdit /\ [][NextEdit]_vars

\* The step editor on a durable store whose writes all land: the calls of NextEdit
\* that change step lists, with the failing outcome of every write left out.
InitSync == InitWith(MaxSyncCalls, {})

NextSync ==
  \/ \E s \in Sessions : createSession(s)
  \/ \E s \in known, stepData \in {ClickSubmit, FillAlt} : addStep(s, stepData)
  \/ \E s \in known, stepId \in NamedSteps, updates \in StepUpdates :
       updateStep(s, stepId, updates)
  \/ \E s \in known, stepId \in NamedSteps : removeStep(s, stepId)
  \/ \E t \in Running : createSessionBrowser(t)
  \/ \E t \in Running : createSessionDb(t) /\ lastResult'.res # "DbError"
  \/ \E t \in Running : addStepAppend(t)
  \/ \E t \in Running : addStepDb(t) /\ lastResult'.res # "DbError"
  \/ \E t \in Running : updateStepDb(t) /\ lastResult'.res # "DbError"
  \/ \E t \in Running : removeStepDb(t) /\ lastResult'.res # "DbError"

SpecSync == InitSync /\ [][NextSync]_vars

\* The step editor on two sessions side by side: one this process creates and one
\* an earlier process persisted, which the first lookup of it loads.
InitPair == InitWith(MaxPairCalls, ColdIds)

NextPair ==
  \/ \E s \in Sessions : createSession(s)
  \/ \E s \in known, stepData \in {ClickSubmit, FillAlt} : addStep(s, stepData)
  \/ \E s \in known, stepId \in NamedSteps, updates \in StepUpdates :
       updateStep(s, stepId, updates)
  \/ \E s \in known, stepId \in NamedSteps : removeStep(s, stepId)
  \/ \E t \in Running : createSessionBrowser(t)
  \/ \E t \in Running : createSessionDb(t)
  \/ \E t \in Running : addStepAppend(t)
  \/ \E t \in Running : addStepDb(t)
  \/ \E t \in Running : updateStepDb(t)
  \/ \E t \in Running : removeStepDb(t)
  \/ \E t \in Running : hydrateRow(t)
  \/ \E t \in Running : hydrateSteps(t)

SpecPair == InitPair /\ [][NextPair]_vars

\* The payloads a client of the push channel can send with step:update, whose
\* `updates: any` reaches updateStep as it came (WebSocketManager.ts:103-105): those
\* of StepUpdates, and payloads that name the id or the timestamp of a step.
NewId == [id |-> 1]
NewTimestamp == [timestamp |-> "2000-01-01T00:00:00.000Z"]
SocketUpdates == StepUpdates \cup {NewId, NewTimestamp}

\* Step editing by clients of the push channel.
InitSocket == InitWith(MaxSocketCalls, {})

NextSocket ==
  \/ \E s \in Sessions : createSession(s)
  \/ \E s \in known, stepData \in {ClickSubmit, FillAlt} : addStep(s, stepData)
  \/ \E s \in known, stepId \in NamedSteps, updates \in SocketUpdates :
       updateStep(s, stepId, updates)
  \/ \E t \in Running : createSessionBrowser(t)
  \/ \E t \in Running : createSessionDb(t)
  \/ \E t \in Running : addStepAppend(t)
  \/ \E t \in Running : addStepDb(t)
  \/ \E t \in Running : updateStepDb(t)

SpecSocket == InitSocket /\ [][NextSocket]_vars

\* createSession calls side by side on a process that holds no session yet: both
\* ids are new uuids, and the calls are followed one await at a time.
InitLaunch == InitOf(0, {}, {})

NextLaunch ==
  \/ \E s \in Sessions : createSessionLaunch(s)
  \/ \E t \in Running : launchBrowser(t)
  \/ \E t \in Running : createSessionContext(t)
  \/ \E t \in Running : createSessionDb(t)

SpecLaunch == InitLaunch /\ [][NextLaunch]_vars

\* The shutdown of the process, racing with the calls that create, use and release
\* driver bindings.
InitDrain == InitWith(MaxDrainCalls, {})

NextDrain ==
  \/ \E s \in Sessions : createSession(s)
  \/ \E s \in known : startRecording(s)
  \/ \E s \in known : deleteSession(s)
  \/ signal
  \/ \E t \in Running : createSessionBrowser(t)
  \/ \E t \in Running : createSessionDb(t)
  \/ \E t \in Running : startRecordingGoto(t)
  \/ \E t \in Running : startRecordingListeners(t)
  \/ \E t \in Running : startRecordingDb(t)
  \/ \E t \in Running : deleteSessionClose(t)
  \/ \E t \in Running : deleteSessionDb(t)
  \/ \E k \in DOMAIN closers, s \in Sessions : closeAllSession(k, s)
  \/ \E k \in DOMAIN closers : closeAllBrowsers(k)

SpecDrain == InitDrain /\ [][NextDrain]_vars

\* The push channel's subscriptions next to the calls that change sessions.
InitRoom == InitWith(MaxRoomCalls, {})

NextRoom ==
  \/ \E s \in Sessions : createSession(s)
  \/ \E s \in known : addStep(s, ClickSubmit)
  \/ \E s \in known : pauseRecording(s)
  \/ \E t \in Running : createSessionBrowser(t)
  \/ \E t \in Running : createSessionDb(t)
  \/ \E t \in Running : addStepAppend(t)
  \/ \E t \in Running : addStepDb(t)
  \/ \E t \in Running : pauseRecordingDb(t)
  \/ \E k \in Sockets : connection(k)
  \/ \E k \in Sockets, s \in Sessions : joinSession(k, s)
  \/ \E k \in Sockets, s \in Sessions : leaveSession(k, s)
  \/ \E k \in Sockets : disconnect(k)

SpecRoom == InitRoom /\ [][NextRoom]_vars

\* healStep on the locators of recorded steps: the primary selectors of the steps,
\* with the lists addStep stores for them, no list, and a list an edit supplied.
HealInputs ==
  {<<Str(in[1].selector), generateFallbackSelectors(in[1].selector, in[1].type, in[2])>> :
     in \in {ClickSubmit, FillAlt} \X {DefaultStrategies, NewStrategies.healingStrategies}}
  \cup {<<Str(ClickSubmit.selector), <<>>>>,
        <<Str(ClickSubmit.selector), NewFallbacks.fallbackSelectors>>,
        <<Str(FillAlt.selector), <<"", Str(FillAlt.selector)>>>>}

InitHeal == InitWith(0, {})

NextHeal ==
  \/ \E in \in HealInputs : healStep(in[1], in[2])
  \/ healStepOriginal
  \/ findBestFallback

SpecHeal == InitHeal /\ [][NextHeal]_vars

\* generateFallbackSelectors on primary selectors of each shape the strategies look
\* at, every step type, and strategy lists with and without repeated locators.
GenSelectors ==
  {<<"#", "submit-button">>, <<".", "alt-button">>, <<"form", " ", ".", "alt-button">>,
   <<"[data-testid=\"", "save", "\"]">>, <<"button">>}
StepTypes == {"navigate", "click", "fill", "select", "wait", "assertion", "screenshot"}
AllStrategies ==
  <<"attribute_matching", "text_content_matching", "positional_matching",
    "visual_ai_matching", "semantic_similarity">>
StrategyLists ==
  {<<>>, DefaultStrategies, NewStrategies.healingStrategies, AllStrategies,
   <<"text_content_matching", "semantic_similarity">>,
   <<"semantic_similarity", "text_content_matching">>,
   <<"attribute_matching", "attribute_matching">>, <<"ocr_matching">>}
GenInputs == GenSelectors \X StepTypes \X StrategyLists

InitGen == InitWith(0, {})

NextGen == \E in \in GenInputs : generateCall(in, MaxGenCalls)

SpecGen == InitGen /\ [][NextGen]_vars

\* The generator called by addStep with the strategies of the session, which
\* updateSettings changes, and called directly with the same arguments.
PureInputs ==
  {<<d.selector, d.type, st>> :
     d \in {ClickSubmit, FillAlt},
     st \in {DefaultStrategies, TwoStrategies.healingStrategies,
             TwoStrategiesSwapped.healingStrategies}}

InitFallback == InitWith(MaxFallbackCalls, {})

NextFallback ==
  \/ \E s \in Sessions : createSession(s)
  \/ \E s \in known, settings \in {TwoStrategies, TwoStrategiesSwapped} :
       updateSettings(s, settings)
  \/ \E s \in known, stepData \in {ClickSubmit, FillAlt} : addStep(s, stepData)
  \/ \E t \in Running : createSessionBrowser(t)
  \/ \E t \in Running : createSessionDb(t)
  \/ \E t \in Running : updateSettingsDb(t)
  \/ \E t \in Running : addStepAppend(t)
  \/ \E t \in Running : addStepDb(t)
  \/ \E in \in PureInputs : generateCall(in, MaxPureCalls)

SpecFallback == InitFallback /\ [][NextFallback]_vars

\* A session whose settings are updated with partial settings while steps are
\* added to it and its recording is paused.
InitSettings == InitWith(MaxSettingsCalls, {})

NextSettings ==
  \/ \E s \in Sessions : createSession(s)
  \/ \E s \in known, settings \in SettingsPayloads : updateSettings(s, settings)
  \/ \E s \in known : addStep(s, ClickSubmit)
  \/ \E s \in known : pauseRecording(s)
  \/ \E t \in Running : createSessionBrowser(t)
  \/ \E t \in Running : createSessionDb(t)
  \/ \E t \in Running : updateSettingsDb(t)
  \/ \E t \in Running : addStepAppend(t)
  \/ \E t \in Running : addStepDb(t)
  \/ \E t \in Running : pauseRecordingDb(t)

SpecSettings == InitSettings /\ [][NextSettings]_vars

\* The status operations on a driver and a durable store that never fail: every
\* awaited call resolves, in any order. The operations are called on sessions
\* whose createSession has returned.
Resolved == lastResult'.res \notin {"DbError", "DriverError"}

InitStatus == InitWith(MaxStatusCalls, {})

NextStatus ==
  \/ \E s \in Sessions : createSession(s)
  \/ \E s \in known : dbSessions[s] # NoRow /\ startRecording(s)
  \/ \E s \in known : dbSessions[s] # NoRow /\ pauseRecording(s)
  \/ \E s \in known : dbSessions[s] # NoRow /\ stopRecording(s)
  \/ \E t \in Running : createSessionBrowser(t) /\ Resolved
  \/ \E t \in Running : createSessionDb(t) /\ Resolved
  \/ \E t \in Running : startRecordingGoto(t) /\ Resolved
  \/ \E t \in Running : startRecordingListeners(t) /\ Resolved
  \/ \E t \in Running : startRecordingDb(t) /\ Resolved
  \/ \E t \in Running : pauseRecordingDb(t) /\ Resolved
  \/ \E t \in Running : stopRecordingDb(t) /\ Resolved

SpecStatus == InitStatus /\ [][NextStatus]_vars

\* The steps the exported session is given: one of each kind the generator knows,
\* as addStep stores them for the REST route, the socket and the driver events, and
\* two of kinds it does not know, which the socket handler of step:add lets in.
StepWith(data, more) == Merge(NewStep(0, WithFallbacks_(data, DefaultStrategies)), more)
RenderSteps ==
  {StepWith([type |-> "navigate", selector |-> <<>>,
             description |-> "Navigate to https://shop.test/"],
            [actionParams |-> [url |-> "https://shop.test/"]]),
   StepWith(ClickSubmit, [actionParams |-> <<>>]),
   StepWith(FillAlt, [actionParams |-> [value |-> "alice"]]),
   StepWith([type |-> "select", selector |-> <<"#", "country">>,
             description |-> "Select country"], [actionParams |-> [value |-> "FR"]]),
   StepWith([type |-> "wait", selector |-> <<>>, description |-> "Wait for load"],
            [actionParams |-> [condition |-> "load", timeout |-> 0]]),
   StepWith([type |-> "assertion", selector |-> <<".", "total">>,
             description |-> "Check total"], [actionParams |-> [expectedText |-> "42"]]),
   [type |-> "screenshot", selector |-> <<>>, description |-> "Take screenshot", id |-> 0],
   StepWith([type |-> "hover", selector |-> <<"#", "menu">>, description |-> "Hover menu"],
            [actionParams |-> <<>>]),
   StepWith([type |-> "hover\nawait page.close();", selector |-> <<"#", "menu">>,
             description |-> "Hover menu"], [actionParams |-> <<>>])}

InitRender == InitWith(0, {})

NextRender ==
  \/ \E step \in RenderSteps : pushStep(step)
  \/ exportCode

SpecRender == InitRender /\ [][NextRender]_vars

\* ================================================================== properties
Allowed ==
  {<<"created", "recording">>, <<"recording", "paused">>, <<"paused", "recording">>,
   <<"recording", "stopped">>, <<"paused", "stopped">>, <<"stopped", "completed">>}

MemSteps(s) == heap[activeSessions[s]].steps

\* C1: after addStep calls alone (from the API and from driver events), the
\* in-memory step list of every session holds exactly the accepted steps, each
\* once, in the order in which they were appended.
StepListIsAcceptedOrder ==
  onlyAdds =>
    \A s \in Sessions :
      activeSessions[s] # NoObj => StepIds(MemSteps(s)) = StepIds(accepted[s])

\* A call is inside its in-memory read-modify-write from its lookup of the session
\* to its last write to it; startRecording is suspended twice in between.
InMutation(t) == t.op = "start" /\ t.pc \in {"start_goto", "start_listen"}

\* C2: while a mutation of a session is between its lookup and its last in-memory
\* write, no other call changes that session in memory (single writer per session);
\* every suspended call can always resume, whatever is suspended on other sessions.
SingleWriterPerSession ==
  [][/\ \A t \in Running :
          (InMutation(t) /\ BagIn(t, tasks')) =>
             /\ heap'[t.ref] = heap[t.ref]
             /\ activeSessions'[t.sid] = activeSessions[t.sid]
     /\ \A t \in Running :
          ENABLED (\/ createSessionBrowser(t) \/ createSessionDb(t)
                   \/ startRecordingGoto(t) \/ startRecordingListeners(t)
                   \/ startRecordingDb(t) \/ pauseRecordingDb(t) \/ stopRecordingDb(t)
                   \/ deleteSessionClose(t) \/ deleteSessionDb(t)
                   \/ addStepAppend(t) \/ addStepDb(t)
                   \/ hydrateRow(t) \/ hydrateSteps(t))]_vars

\* C3: once deleteSession(id) has returned, neither memory nor the durable store
\* holds the session or a step of it.
DeletedSessionUnreachable ==
  \A s \in deleted :
    /\ activeSessions[s] = NoObj
    /\ dbSessions[s] = NoRow
    /\ {r \in dbSteps : r.sid = s} = {}

\* C4: the status of a session in memory only changes along created -> recording,
\* recording <-> paused, recording|paused -> stopped, stopped -> completed.
StatusFollowsStateMachine ==
  [][\A s \in Sessions :
       \/ Status(s)' = Status(s)
       \/ Status(s) = "absent"
       \/ Status(s)' = "absent"
       \/ <<Status(s), Status(s)'>> \in Allowed]_vars

\* C5: a pauseRecording call that finds the session in a status other than
\* recording is rejected with InvalidTransition and has written nothing.
PauseRejectedWhenNotRecording ==
  (lastResult.op = "pause" /\ lastResult.pre \notin {"absent", "recording"}) =>
     (lastResult.res = "InvalidTransition" /\ ~lastResult.wrote)

\* The synchronous part of a stopRecording call on session s.
StopStep(s) ==
  /\ calls' = calls - 1
  /\ \E t \in BagToSet(tasks') :
       /\ t.op = "stop" /\ t.sid = s /\ t.pc = "stop_db"
       /\ CopiesIn(t, tasks') = CopiesIn(t, tasks) + 1

\* C6: stopRecording on an already stopped session succeeds and leaves the session
\* stopped with its step list and settings unchanged.
StopIsIdempotent ==
  [][/\ \A s \in Sessions :
          (StopStep(s) /\ Status(s) = "stopped") =>
             /\ Status(s)' = "stopped"
             /\ activeSessions'[s] = activeSessions[s]
             /\ MemSteps(s)' = MemSteps(s)
             /\ heap'[activeSessions[s]].settings = heap[activeSessions[s]].settings
     /\ (lastResult'.op = "stop" /\ lastResult'.pre = "stopped") =>
           lastResult'.res = "ok"]_vars

\* C7: startRecording fails with SessionNotFound for an unknown id and with
\* DriverUnavailable when the registry holds no binding, and a startRecording call
\* that fails has changed neither the status nor the binding's recording flag.
StartFailureChangesNothing ==
  lastResult.op = "start" =>
    /\ lastResult.pre = "absent" => lastResult.res = "SessionNotFound"
    /\ (lastResult.pre # "absent" /\ ~lastResult.bound) =>
          lastResult.res = "DriverUnavailable"
    /\ lastResult.res # "ok" => ~lastResult.wrote

\* C8: no step is appended by a driver event that fires after a stopRecording call
\* of its session has returned.
NoStepFromEventAfterStop ==
  \A s \in Sessions : \A i \in DOMAIN accepted[s] :
    ~(accepted[s][i].src = "driver" /\ accepted[s][i].late)

\* C9: once a stopRecording call of a session has returned, the registry holds no
\* binding for the session.
StopReleasesBinding ==
  \A s \in stopDone : ~bindings[s]

\* C10: an insertion whose session loses its binding while the insertion is in
\* flight appends nothing and fails with DriverUnavailable.
LostBindingInsertionFails ==
  /\ \A s \in Sessions : \A i \in DOMAIN accepted[s] : ~accepted[s][i].lost
  /\ (lastResult.op = "addStep" /\ lastResult.lost) =>
        lastResult.res = "DriverUnavailable"

\* C11: once a deleteSession call of a session has returned, the registry holds no
\* binding for the session, whatever the session's status was and whether or not
\* closing the browsing context reported an error.
DeleteReleasesBinding ==
  \A s \in deleted : ~bindings[s]

\* The mutations of a session (createSession and deleteSession make and end one).
Mutations == {"addStep", "updateStep", "removeStep", "updateSettings", "start", "pause", "stop"}

\* C15: a mutation that was applied in memory and whose durable write then fails
\* still returns normally to its caller.
DurableFailureStillSucceeds ==
  (lastResult.op \in Mutations /\ lastResult.wrote) => lastResult.res # "DbError"

\* C16: a lookup of an id that the durable store holds never answers "not found":
\* it returns the session to the caller that looked it up.
LookupIsReadThrough ==
  lastResult.res = "SessionNotFound" => ~lastResult.stored

\* C19: every mutation that returned normally was broadcast to the session's room,
\* whichever path it came by: a step appended for a driver event as well as one
\* added through the REST or the socket API.
AcceptedMutationIsBroadcast ==
  (lastResult.op \in Mutations /\ lastResult.res = "ok") => lastResult.emit # "none"

\* Step i of session object r is the same step before and after the transition.
SameStep(r, i) ==
  /\ i \in DOMAIN heap'[r].steps
  /\ heap'[r].steps[i].id = heap[r].steps[i].id

\* C12: when the primary selector of a step changes, the step's fallback list
\* afterwards is generateFallbackSelectors(new selector, step type, strategies of
\* the session), computed afresh.
FallbacksRecomputedOnEdit ==
  [][\A r \in DOMAIN heap : \A i \in DOMAIN heap[r].steps :
       (SameStep(r, i) /\ heap'[r].steps[i].selector # heap[r].steps[i].selector) =>
          heap'[r].steps[i].fallbackSelectors =
            generateFallbackSelectors(heap'[r].steps[i].selector, heap'[r].steps[i].type,
                                      heap'[r].settings.healingStrategies)]_vars

\* C13: the fallback list of a step only changes in a transition that changes the
\* step's primary selector.
FallbacksImmutable ==
  [][\A r \in DOMAIN heap : \A i \in DOMAIN heap[r].steps :
       (SameStep(r, i) /\ heap'[r].steps[i].selector = heap[r].steps[i].selector) =>
          heap'[r].steps[i].fallbackSelectors = heap[r].steps[i].fallbackSelectors]_vars

\* C17: an updateStep or removeStep that names a step id the session does not have
\* fails with a not-found error.
UnknownStepIsNotFound ==
  (lastResult.op \in {"updateStep", "removeStep"} /\ ~lastResult.found) =>
     lastResult.res = "StepNotFound"

\* No call of session s is in flight.
Quiet(s) == \A t \in Running : t.sid # s

\* C18: after addStep and removeStep calls whose durable writes have all landed, the
\* step rows of a session have pairwise distinct order indexes and, sorted by order
\* index, are the in-memory steps in their order.
StepOrderIsPersisted ==
  \A s \in Sessions :
    (plainEdits /\ activeSessions[s] # NoObj /\ Quiet(s)) =>
       /\ \A r1, r2 \in dbSteps : (r1.sid = s /\ r2.sid = s /\ r1 # r2) => r1.ord # r2.ord
       /\ \A q \in SessionSteps(s) :
            [i \in 1..Len(q) |-> StepOfRow(q[i])] = MemSteps(s)

\* C20: when a call that changed the session in memory has returned normally, the
\* session row of the durable store has the display name the session has in memory.
MutationIsMirrored ==
  (lastResult.op = "updateSession" /\ lastResult.res = "ok"
     /\ activeSessions[lastResult.sid] # NoObj /\ dbSessions[lastResult.sid] # NoRow) =>
        dbSessions[lastResult.sid].testName = heap[activeSessions[lastResult.sid]].testName

\* Call t ends in this transition because its durable write failed.
DurableFailure(t) ==
  /\ t.op \in Mutations /\ t.wrote
  /\ CopiesIn(t, tasks') = CopiesIn(t, tasks) - 1
  /\ lastResult' = Result(t, "DbError")

\* C14: when the durable write of a mutation fails, nothing is rolled back: the
\* failure leaves every session object and the session map as the mutation made them.
NoRollbackOnDurableFailure ==
  [][\A t \in Running :
       DurableFailure(t) => (heap' = heap /\ activeSessions' = activeSessions)]_vars

\* An addStep has failed on its durable write and its step is in the session's
\* in-memory list, with no row in the store.
FailedStepStaysInMemory ==
  /\ lastResult.op = "addStep" /\ lastResult.res = "DbError"
  /\ activeSessions[lastResult.sid] # NoObj
  /\ FindIndex(MemSteps(lastResult.sid), lastResult.step) # 0
  /\ \A r \in dbSteps : r.id # lastResult.step

\* C21: in every reachable state, each registered driver binding refers to an engine
\* instance that has not been closed.
EngineOutlivesBindings ==
  \A s \in Sessions : bindings[s] => ~EngineClosed(page[s].browser)

\* C22: shutdown closes every session's browsing context before it closes any engine
\* instance, and under repeated signals each context and each engine instance is
\* closed at most once.
ShutdownDrainsOnce ==
  /\ drained
  /\ \A s \in Sessions : shutdownCloses[s] <= 1
  /\ \A b \in DOMAIN engines : engines[b].closes <= 1

\* The subscriber sets hold no socket whose connection has ended, and no set is empty.
Deregistered ==
  /\ \A s \in DOMAIN sessionConnections :
       sessionConnections[s] # {} /\ sessionConnections[s] \cap disconnected = {}
  /\ \A s \in Sessions : rooms[s] \cap disconnected = {}

\* C23: a leave-session or a disconnect removes the consumer from the session's
\* subscriber set, leaves no ended connection and no empty set in the subscriber
\* sets, and changes no session's status, step list or settings.
LeaveOnlyDeregisters ==
  [][\A k \in Sockets :
       /\ disconnect(k) =>
            /\ Deregistered'
            /\ UNCHANGED <<activeSessions, heap, dbSessions, dbSteps>>
       /\ \A s \in Sessions :
            leaveSession(k, s) =>
              /\ k \notin rooms'[s]
              /\ s \in DOMAIN sessionConnections' => k \notin sessionConnections'[s]
              /\ Deregistered'
              /\ UNCHANGED <<activeSessions, heap, dbSessions, dbSteps>>]_vars

\* C23, witness: a consumer that had joined a session with steps has disconnected.
SubscriberGone ==
  \E k \in disconnected, s \in Sessions :
    /\ <<k, s>> \in deregistered
    /\ activeSessions[s] # NoObj
    /\ heap[activeSessions[s]].steps # <<>>

\* The primary locator resolved in the healStep call that returned.
PrimaryResolved == healing.probes # <<>> /\ healing.probes[1].resolved

\* C24: the healing result never has healed = true when the primary locator
\* resolved, and its confidence is 1.0 exactly when healed = false and the primary
\* locator resolved.
HealedExcludesPrimary ==
  healing.pc = "done" =>
    /\ PrimaryResolved => ~healing.result.healed
    /\ healing.result.confidence = 10 <=> (~healing.result.healed /\ PrimaryResolved)

\* C24, witness: a call returned after the primary resolved, with confidence 1.0.
PrimaryResolvedReturned ==
  healing.pc = "done" /\ PrimaryResolved /\ healing.result.confidence = 10

\* C25: the primary is probed first and, only if it fails, the fallbacks in list
\* order up to the first that resolves; that one is reported with healed = true and
\* confidence 0.8; when none resolves the result is healed = false, confidence 0.0.
ProbesInListOrder ==
  LET n == Len(healing.probes)
      fb == healing.fallbackSelectors
  IN /\ n <= 1 + Len(fb)
     /\ n >= 1 => healing.probes[1].selector = healing.originalSelector
     /\ \A j \in 2..n : healing.probes[j].selector = fb[j - 1]
     /\ \A j \in 1..(n - 1) : ~healing.probes[j].resolved
     /\ healing.pc = "done" =>
          /\ n >= 1
          /\ PrimaryResolved => n = 1
          /\ healing.result.healed <=> (n >= 2 /\ healing.probes[n].resolved)
          /\ healing.result.healed =>
               /\ healing.result.newSelector = fb[n - 1]
               /\ healing.result.confidence = 8
          /\ (\A j \in 1..n : ~healing.probes[j].resolved) =>
               /\ n = 1 + Len(fb)
               /\ ~healing.result.healed
               /\ healing.result.confidence = 0

\* C25, witness: a call returned healed by a fallback that is not the first of its list.
HealedByLaterFallback ==
  /\ healing.pc = "done" /\ healing.result.healed
  /\ Len(healing.probes) >= 3

\* The results of the strategies of a call, one after the other.
StrategyResults(c) ==
  [i \in DOMAIN c.enabledStrategies |->
     applyStrategy(c.enabledStrategies[i], c.primarySelector, c.stepType)]

\* The locator at position n of the concatenation of the sequences of parts.
RECURSIVE Before(_, _)
Before(parts, i) == IF i = 1 THEN 0 ELSE Before(parts, i - 1) + Len(parts[i - 1])
Total(parts) == Before(parts, Len(parts) + 1)
At(parts, n) ==
  LET i == CHOOSE j \in DOMAIN parts : Before(parts, j) < n /\ n <= Before(parts, j + 1)
  IN parts[i][n - Before(parts, i)]

\* r is what is left of the concatenation of parts when each locator is kept at its
\* first occurrence only.
IsStableDedup(r, parts) ==
  LET first(x) == CHOOSE n \in 1..Total(parts) :
                    At(parts, n) = x /\ \A m \in 1..(n - 1) : At(parts, m) # x
  IN /\ \A n \in 1..Total(parts) : \E i \in DOMAIN r : r[i] = At(parts, n)
     /\ \A i \in DOMAIN r : \E n \in 1..Total(parts) : r[i] = At(parts, n)
     /\ \A i, j \in DOMAIN r : i < j => first(r[i]) < first(r[j])

\* C26: generateFallbacks returns the concatenation of the per-strategy results in
\* the order of the strategy list, each locator once, at its first occurrence.
FallbacksConcatenatedDeduplicated ==
  \A k \in DOMAIN genLog : IsStableDedup(genLog[k].result, StrategyResults(genLog[k]))

\* C26, witness: a call whose strategies produced the same locator twice.
DuplicateWasDropped ==
  \E k \in DOMAIN genLog :
    /\ genLog[k].result # <<>>
    /\ Len(genLog[k].result) < Total(StrategyResults(genLog[k]))

Range(q) == {q[i] : i \in DOMAIN q}

\* A fallback list that is not empty, has a locator of the attribute strategy and
\* one of the text strategy for a click on the selector, and no locator twice.
CoversBothStrategies(list, selector) ==
  /\ list # <<>>
  /\ Range(list) \cap Range(generateAttributeBasedFallbacks(selector)) # {}
  /\ Range(list) \cap Range(generateTextBasedFallbacks(selector, "click")) # {}
  /\ \A i, j \in DOMAIN list : i # j => list[i] # list[j]

\* C28: adding a click step with primary locator #submit-button to a session whose
\* strategies are attribute_matching and text_content_matching yields a stored
\* fallback list that is non-empty, has a locator of each of the two strategies and
\* no duplicates: the list the call computes is such a list, and it is the list that
\* is stored in memory and in the durable store.
StoredFallbacksCoverBothStrategies ==
  [][/\ \A s \in Sessions :
          (/\ addStep(s, ClickSubmit)
           /\ getSessionHit(s)
           /\ Range(heap[activeSessions[s]].settings.healingStrategies)
                = {"attribute_matching", "text_content_matching"})
            => \A t \in BagToSet(tasks') :
                 CopiesIn(t, tasks') > CopiesIn(t, tasks)
                   => CoversBothStrategies(t.data.fallbackSelectors, ClickSubmit.selector)
     /\ \A t \in Running :
          /\ addStepAppend(t) =>
               heap'[t.ref].steps[Len(heap'[t.ref].steps)].fallbackSelectors
                 = t.data.fallbackSelectors
          /\ (addStepDb(t) /\ lastResult'.res = "ok") =>
               \E r \in dbSteps' :
                 r.id = t.step /\ r.fallbackSelectors = t.data.fallbackSelectors]_vars

\* C28, witness: such a step is stored, with the four locators of the attribute
\* strategy and the five of the text strategy.
SubmitStepStored ==
  \E s \in Sessions :
    /\ activeSessions[s] # NoObj
    /\ heap[activeSessions[s]].settings.healingStrategies
         = <<"attribute_matching", "text_content_matching">>
    /\ \E i \in DOMAIN heap[activeSessions[s]].steps, r \in dbSteps :
         /\ r.id = heap[activeSessions[s]].steps[i].id
         /\ r.fallbackSelectors = heap[activeSessions[s]].steps[i].fallbackSelectors
         /\ heap[activeSessions[s]].steps[i].selector = <<"#", "submit-button">>
         /\ heap[activeSessions[s]].steps[i].fallbackSelectors =
              <<"[data-testid=\"submit-button\"]", "[id*=\"submit-button\"]",
                "[name=\"submit-button\"]", "[aria-label*=\"submit-button\"]",
                "button:has-text(\"Submit\")", "button:has-text(\"Save\")",
                "button:has-text(\"Continue\")", "a:has-text(\"Click\")",
                "[role=\"button\"]">>

\* The text the generator writes after the blocks of the steps: the end of the test
\* and the helper functions.
AfterBlocks == "\n});" \o "\n\n" \o generateHelperFunctions

\* `later` is `earlier` with `text` inserted just before the text that follows the
\* blocks of the steps: whatever precedes that point and whatever follows it is the
\* same in both.
InsertedAfterBlocks(earlier, text, later) ==
  LET cut == Len(earlier) - Len(AfterBlocks)
  IN /\ cut >= 0
     /\ SubSeq(earlier, cut + 1, Len(earlier)) = AfterBlocks
     /\ later = SubSeq(earlier, 1, cut) \o text \o AfterBlocks

\* C29: two exports of a session that did not change in between return the same
\* text, and an export made after exactly one step was appended returns the text of
\* the export before it with the block of the new step, on lines of its own,
\* inserted after the blocks of the earlier steps and nothing else changed.
RenderDeterministicAndLocal ==
  Len(exported.renders) = 2 =>
    LET old == exported.renders[1]
        new == exported.renders[2]
    IN /\ new.session = old.session => new.code = old.code
       /\ \A step \in RenderSteps :
            (/\ new.session.testName = old.session.testName
             /\ new.session.steps = Append(old.session.steps, step))
              => InsertedAfterBlocks(old.code,
                                     (IF old.session.steps = <<>> THEN "" ELSE "\n")
                                       \o generateStepCode(step),
                                     new.code)

\* A session with one step was exported, a step was appended to it, and it was
\* exported again.
ExportedBeforeAndAfterAppend ==
  /\ Len(exported.renders) = 2
  /\ Len(exported.renders[1].session.steps) = 1
  /\ Len(exported.renders[2].session.steps) = 2
  /\ SubSeq(exported.renders[2].session.steps, 1, 1) = exported.renders[1].session.steps

\* The seven action kinds of TestStep.type.
KnownKinds == {"navigate", "click", "fill", "select", "wait", "assertion", "screenshot"}

StartsWith(s, p) == Len(s) >= Len(p) /\ SubSeq(s, 1, Len(p)) = p
EndsWith(s, p) == Len(s) >= Len(p) /\ SubSeq(s, Len(s) - Len(p) + 1, Len(s)) = p

\* The lines of a text.
RECURSIVE Lines(_)
Lines(s) ==
  LET feeds == {i \in 1..Len(s) : SubSeq(s, i, i) = "\n"}
  IN IF feeds = {} THEN <<s>>
     ELSE LET i == CHOOSE f \in feeds : \A g \in feeds : f <= g
          IN <<SubSeq(s, 1, i - 1)>> \o Lines(SubSeq(s, i + 1, Len(s)))

\* The text the generator writes before the blocks of the steps.
BeforeBlocks(session) ==
  "import { test, expect, Page } from '@playwright/test';" \o "\n\n"
    \o "test('" \o session.testName \o "', async ({ page }) => {" \o "\n"

\* The statement a step of a known kind is rendered as: one awaited call, of the
\* form of its kind and on the step's own locator and value.
StatementOf(step, line) ==
  LET locate == "findElementWithHealing(page, '" \o Str(step.selector) \o "', ["
  IN CASE step.type = "navigate" ->
            StartsWith(line, "  await page.goto('") /\ EndsWith(line, "');")
       [] step.type = "click" ->
            StartsWith(line, "  await " \o locate) /\ EndsWith(line, "]).click();")
       [] step.type = "fill" ->
            /\ StartsWith(line, "  await " \o locate)
            /\ EndsWith(line, "]).fill('" \o Param(step, "value", "") \o "');")
       [] step.type = "select" ->
            /\ StartsWith(line, "  await " \o locate)
            /\ EndsWith(line, "]).selectOption('" \o Param(step, "value", "") \o "');")
       [] step.type = "wait" ->
            StartsWith(line, "  await smartWait(page, '") /\ EndsWith(line, ");")
       [] step.type = "assertion" ->
            /\ StartsWith(line, "  await expect(" \o locate)
            /\ EndsWith(line, "])).toContainText('" \o Param(step, "expectedText", "")
                                \o "');")
       [] step.type = "screenshot" ->
            /\ StartsWith(line, "  await page.screenshot({ path: 'test-results/")
            /\ EndsWith(line, ".png', fullPage: true });")

\* The lines are the blocks of the steps, one block per step and in the order of
\* the steps: a step of a known kind is a comment line with its description and
\* the statement of its kind, a step of any other kind is one comment line that
\* names the kind.
RECURSIVE OneBlockPerStep(_, _)
OneBlockPerStep(lines, steps) ==
  IF steps = <<>> THEN lines = <<>>
  ELSE LET step == Head(steps)
       IN IF step.type \in KnownKinds
            THEN /\ Len(lines) >= 2
                 /\ lines[1] = "  // " \o step.description
                 /\ StatementOf(step, lines[2])
                 /\ OneBlockPerStep(SubSeq(lines, 3, Len(lines)), Tail(steps))
            ELSE /\ Len(lines) >= 1
                 /\ lines[1] = "  // Unknown step type: " \o step.type
                 /\ OneBlockPerStep(Tail(lines), Tail(steps))

\* C30: the body of the test in every exported script consists of one block per
\* step of the session, in the order of the steps, each of the form of its kind;
\* the block of a step of an unknown kind is a comment and nothing else.
OneBlockPerStepInOrder ==
  \A r \in DOMAIN exported.renders :
    LET code == exported.renders[r].code
        session == exported.renders[r].session
        from == Len(BeforeBlocks(session))
        to == Len(code) - Len(AfterBlocks)
    IN /\ StartsWith(code, BeforeBlocks(session))
       /\ EndsWith(code, AfterBlocks)
       /\ from <= to
       /\ IF session.steps = <<>> THEN from = to
          ELSE OneBlockPerStep(Lines(SubSeq(code, from + 1, to)), session.steps)

\* ------------------------------------------------------------------ the exported script at run time
CharAt(s, i) == SubSeq(s, i, i)

\* String.prototype.indexOf, counted from 1; 0 when the piece does not occur.
IndexOf(s, piece) ==
  LET at == {i \in 1..(Len(s) - Len(piece) + 1) : SubSeq(s, i, i + Len(piece) - 1) = piece}
  IN IF at = {} THEN 0 ELSE CHOOSE i \in at : \A j \in at : i <= j

\* The number of backslashes that stand just before position j.
RECURSIVE BackslashesBefore(_, _)
BackslashesBefore(s, j) ==
  IF j > 1 /\ CharAt(s, j - 1) = "\\" THEN 1 + BackslashesBefore(s, j - 1) ELSE 0

\* The value of the text between the quotes of a string literal: a backslash gives
\* the character after it its plain meaning, \n is a line feed.
RECURSIVE Unescape(_, _)
Unescape(s, i) ==
  IF i > Len(s) THEN ""
  ELSE IF CharAt(s, i) = "\\" /\ i < Len(s)
    THEN (IF CharAt(s, i + 1) = "n" THEN "\n" ELSE CharAt(s, i + 1)) \o Unescape(s, i + 2)
  ELSE CharAt(s, i) \o Unescape(s, i + 1)

NoParse == [ok |-> FALSE, value |-> <<>>, end |-> 0]

\* The string literal that opens at position i with the quote q, as the language
\* reads it: it ends at the next quote q that no backslash escapes.
ReadString(s, i, q) ==
  LET closing == {j \in (i + 1)..Len(s) : /\ CharAt(s, j) = q
                                          /\ BackslashesBefore(s, j) % 2 = 0}
      end == CHOOSE j \in closing : \A k \in closing : j <= k
  IN IF i > Len(s) \/ CharAt(s, i) # q \/ closing = {} THEN NoParse
     ELSE [ok |-> TRUE, value |-> Unescape(SubSeq(s, i + 1, end - 1), 1), end |-> end]

\* The elements of an array literal of string literals, from the element that
\* opens at position i on.
RECURSIVE ReadElements(_, _, _)
ReadElements(s, i, read) ==
  LET element == ReadString(s, i, "\"")
      after == CharAt(s, element.end + 1)
  IN IF ~element.ok THEN NoParse
     ELSE IF after = "," THEN ReadElements(s, element.end + 2, Append(read, element.value))
     ELSE IF after = "]"
       THEN [ok |-> TRUE, value |-> Append(read, element.value), end |-> element.end + 1]
     ELSE NoParse

ReadArray(s, i) ==
  IF CharAt(s, i) # "[" THEN NoParse
  ELSE IF CharAt(s, i + 1) = "]" THEN [ok |-> TRUE, value |-> <<>>, end |-> i + 1]
  ELSE ReadElements(s, i + 1, <<>>)

\* The call of findElementWithHealing in a statement of the script, as the language
\* reads it: page, a string literal in single quotes, an array literal.  It is not
\* ok when the text is not a call of that form, and the script then does not compile.
ReadCall(line) ==
  LET callee == "findElementWithHealing(page, "
      at == IndexOf(line, callee)
      first == ReadString(line, at + Len(callee), "'")
      second == ReadArray(line, first.end + 3)
  IN IF /\ at > 0
        /\ first.ok
        /\ SubSeq(line, first.end + 1, first.end + 2) = ", "
        /\ second.ok
        /\ CharAt(line, second.end + 1) = ")"
       THEN [ok |-> TRUE, selector |-> first.value, fallbackSelectors |-> second.value]
       ELSE [ok |-> FALSE, selector |-> "", fallbackSelectors |-> <<>>]

\* The lines of the body of the test in an export.
ScriptLines(render) ==
  LET from == Len(BeforeBlocks(render.session))
      to == Len(render.code) - Len(AfterBlocks)
  IN Lines(SubSeq(render.code, from + 1, to))

\* The kinds whose statement locates an element and acts on it.
LocateKinds == {"click", "fill", "select", "assertion"}

\* element.waitFor({ timeout: 5000 }) resolves or throws: the page's choice.
waitFor(selector) == BOOLEAN

\* The script of the last export runs the statement of step i, the second line of
\* the step's block: the arguments of the call are evaluated and
\* findElementWithHealing runs up to `await element.waitFor` (helper text, 64-66).
\* A script that does not compile runs nothing.
runStep(i) ==
  /\ located.pc \in {"idle", "done"}
  /\ exported.renders # <<>>
  /\ LET render == exported.renders[Len(exported.renders)]
         lines == ScriptLines(render)
     IN /\ i \in DOMAIN render.session.steps
        /\ render.session.steps[i].type \in LocateKinds
        /\ 2 * i <= Len(lines)
        /\ LET call == ReadCall(lines[2 * i])
           IN located' =
                IF call.ok
                  THEN [NoLocate EXCEPT !.pc = "primary", !.step = render.session.steps[i],
                                        !.selector = call.selector,
                                        !.fallbackSelectors = call.fallbackSelectors]
                  ELSE [NoLocate EXCEPT !.pc = "done", !.step = render.session.steps[i],
                                        !.thrown = "SyntaxError"]
  /\ UNCHANGED locateFrame

\* The loop of the helper from the fallback at position i on, up to its next await
\* or the throw after the loop (helper text, 71-83).
fallbackFrom(l, i) ==
  IF i > Len(l.fallbackSelectors)
    THEN [l EXCEPT !.pc = "done", !.thrown = "All selectors failed for: " \o l.selector]
    ELSE [l EXCEPT !.pc = "fallback", !.next = i]

\* waitFor of the primary locator settles (helper text, 66-69).
primaryWaitFor ==
  /\ located.pc = "primary"
  /\ \E resolved \in waitFor(located.selector) :
       LET l == [located EXCEPT !.probes = Append(@, [selector |-> located.selector,
                                                      resolved |-> resolved])]
       IN located' = IF resolved THEN [l EXCEPT !.pc = "done", !.returned = l.selector]
                     ELSE fallbackFrom(l, 1)
  /\ UNCHANGED locateFrame

\* waitFor of the fallback at position `next` settles (helper text, 74-79).
fallbackWaitFor ==
  /\ located.pc = "fallback"
  /\ LET fallback == located.fallbackSelectors[located.next]
     IN \E resolved \in waitFor(fallback) :
          LET l == [located EXCEPT !.probes = Append(@, [selector |-> fallback,
                                                         resolved |-> resolved])]
          IN located' = IF resolved THEN [l EXCEPT !.pc = "done", !.returned = fallback]
                        ELSE fallbackFrom(l, located.next + 1)
  /\ UNCHANGED locateFrame

\* The steps of the scripts that are run: steps of the four kinds as addStep stores
\* them, among them a click recorded on an element whose aria-label holds an
\* apostrophe (generateSelector of the recording script, SessionManager.ts:116-123).
LocateSteps ==
  {StepWith(ClickSubmit, [actionParams |-> <<>>]),
   StepWith(FillAlt, [actionParams |-> [value |-> "alice"]]),
   StepWith([type |-> "select", selector |-> <<"#", "country">>,
             description |-> "Select country"], [actionParams |-> [value |-> "FR"]]),
   StepWith([type |-> "assertion", selector |-> <<".", "total">>,
             description |-> "Check total"], [actionParams |-> [expectedText |-> "42"]]),
   StepWith([type |-> "click", selector |-> <<"[aria-label=\"", "Don't show again", "\"]">>,
             description |-> "Click on [aria-label=\"Don't show again\"]"],
            [actionParams |-> <<>>])}

InitLocate == InitWith(0, {})

NextLocate ==
  \/ \E step \in LocateSteps : pushStep(step)
  \/ exportCode
  \/ \E i \in 1..MaxRenderSteps : runStep(i)
  \/ primaryWaitFor
  \/ fallbackWaitFor

SpecLocate == InitLocate /\ [][NextLocate]_vars

\* The probes are the first selectors of the list, in its order, and none but the
\* last of them resolved.
ProbedInOrder(probes, list) ==
  /\ Len(probes) <= Len(list)
  /\ \A p \in DOMAIN probes :
       /\ probes[p].selector = list[p]
       /\ p < Len(probes) => ~probes[p].resolved

\* C31: the call a statement of a click, fill, select or assertion step makes
\* passes the step's primary locator and the step's fallback list in its order,
\* and the helper probes the primary locator and then the fallbacks in that order,
\* returns the first that resolves and throws its error only after all failed.
LocatePrimaryThenFallbacks ==
  located.pc # "idle" =>
    LET list == <<Str(located.step.selector)>> \o located.step.fallbackSelectors
    IN /\ located.thrown # "SyntaxError"
       /\ located.selector = Str(located.step.selector)
       /\ located.fallbackSelectors = located.step.fallbackSelectors
       /\ ProbedInOrder(located.probes, list)
       /\ located.returned # "" =>
            /\ located.probes # <<>>
            /\ located.probes[Len(located.probes)].resolved
            /\ located.returned = located.probes[Len(located.probes)].selector
       /\ located.thrown # "" =>
            /\ Len(located.probes) = Len(list)
            /\ \A p \in DOMAIN located.probes : ~located.probes[p].resolved
       /\ located.pc = "done" => (located.returned # "" \/ located.thrown # "")

\* The ids of the step rows the durable store holds for s, and of the steps of s in
\* memory.
StoredStepIds(s) == {r.id : r \in {x \in dbSteps : x.sid = s}}
MemStepIds(s) == {MemSteps(s)[i].id : i \in DOMAIN MemSteps(s)}

\* C32: when no call on a session is in flight and no durable write has failed, the
\* step rows the durable store holds for the session are the steps of the
\* in-memory list, id for id.
StepsMirroredWhenQuiet ==
  \A s \in Sessions :
    (activeSessions[s] # NoObj /\ Quiet(s)) => StoredStepIds(s) = MemStepIds(s)

\* A removeStep or updateStep call addressed to session a takes a step in this
\* transition: it runs up to its durable write, or its durable write lands.
StepEditOf(a) ==
  \/ \E t \in BagToSet(tasks') :
       /\ t.op \in {"removeStep", "updateStep"} /\ t.sid = a
       /\ CopiesIn(t, tasks') > CopiesIn(t, tasks)
  \/ \E t \in Running :
       /\ t.op \in {"removeStep", "updateStep"} /\ t.sid = a
       /\ CopiesIn(t, tasks') < CopiesIn(t, tasks)

\* C33: a removeStep or updateStep addressed to a session changes no step of any
\* other session, neither its in-memory list nor its rows in the durable store,
\* whichever step id the call names.
StepEditStaysInSession ==
  [][\A a \in Sessions :
       StepEditOf(a) =>
         \A b \in Sessions \ {a} :
           /\ {r \in dbSteps' : r.sid = b} = {r \in dbSteps : r.sid = b}
           /\ activeSessions'[b] = activeSessions[b]
           /\ activeSessions[b] # NoObj =>
                heap'[activeSessions[b]].steps = heap[activeSessions[b]].steps]_vars

\* The creation timestamp of a step: the one addStep gave it (line 216), which the
\* model leaves out of the step, unless a payload has put another in its place.
CreatedAt(step) == IF "timestamp" \in DOMAIN step THEN step.timestamp ELSE "addStep"

\* An updateStep call on session s runs its in-memory part in this transition.
UpdateStepOn(s) ==
  \E t \in BagToSet(tasks') :
    /\ t.op = "updateStep" /\ t.sid = s
    /\ CopiesIn(t, tasks') > CopiesIn(t, tasks)

\* C34: an updateStep, whatever payload it is given, leaves the session's step list
\* with the same length, the same step ids in the same order and the same creation
\* timestamps, and so with pairwise distinct step ids.
UpdateKeepsIdentity ==
  [][\A s \in Sessions :
       (UpdateStepOn(s) /\ activeSessions[s] # NoObj) =>
         LET old == heap[activeSessions[s]].steps
             new == heap'[activeSessions'[s]].steps
         IN /\ Len(new) = Len(old)
            /\ StepIds(new) = StepIds(old)
            /\ \A i \in DOMAIN old : CreatedAt(new[i]) = CreatedAt(old[i])
            /\ \A i, j \in DOMAIN new : i # j => new[i].id # new[j].id]_vars

\* C35: a hydration that completes for an id that maps to a session in memory
\* does not replace that session: the id maps to the same object afterwards, with
\* the steps and the status it had.
HydrationNeverReplaces ==
  [][\A t \in Running :
       (/\ t.op = "hydrate"
        /\ CopiesIn(t, tasks') < CopiesIn(t, tasks)
        /\ activeSessions[t.sid] # NoObj)
         => /\ activeSessions'[t.sid] = activeSessions[t.sid]
            /\ heap'[activeSessions'[t.sid]].steps = heap[activeSessions[t.sid]].steps
            /\ heap'[activeSessions'[t.sid]].status = heap[activeSessions[t.sid]].status]_vars

\* C36: every engine instance that was launched and has not been closed is the
\* instance the registry holds, and every session's binding is on that instance.
LaunchedEngineIsRegistered ==
  /\ \A e \in DOMAIN engines : engines[e].closes = 0 => browsers = e
  /\ \A s \in Sessions : bindings[s] => page[s].browser = browsers

\* C37: one driver event starts at most one insertion of a step: no transition adds
\* more than one addStep call made by a listener of the page.
OneStepPerDriverEvent ==
  [][\A t \in BagToSet(tasks') :
       (t.op = "addStep" /\ t.chan = "driver") =>
         CopiesIn(t, tasks') - CopiesIn(t, tasks) <= 1]_vars

\* ------------------------------------------------- the steps table, there and back
\* A column holding null is the empty tuple; a column holding v is <<v>>.
Null == <<>>

\* The row DatabaseService.addStep inserts (121-131). `step.actionParams?.value ||
\* null`: only the key `value` of the action parameters has a column, and a value
\* that is missing or the empty string is stored as null. `step.fallbackSelectors ||
\* null`: an array, empty or not, is stored as it is.
InsertedRow(sessionId, step, order) ==
  LET actionParams == IF "actionParams" \in DOMAIN step THEN step.actionParams ELSE <<>>
      value == IF "value" \in DOMAIN actionParams THEN <<actionParams.value>> ELSE <<>>
  IN [id |-> step.id, session_id |-> sessionId, type |-> step.type,
      selector |-> step.selector,
      value |-> IF value # <<>> /\ value[1] # "" THEN value ELSE Null,
      description |-> step.description, step_order |-> order,
      fallback_selectors |-> IF "fallbackSelectors" \in DOMAIN step
                             THEN <<step.fallbackSelectors>> ELSE Null]

\* The step getSessionSteps builds of a row (159-168): `row.value ? { value:
\* row.value } : undefined` and `row.fallback_selectors || undefined`; a key that is
\* undefined is a key the step does not have.
LoadedStep(row) ==
  LET actionParams == IF row.value # Null /\ row.value[1] # ""
                      THEN [actionParams |-> [value |-> row.value[1]]] ELSE <<>>
      fallbackSelectors == IF row.fallback_selectors # Null
                           THEN [fallbackSelectors |-> row.fallback_selectors[1]]
                           ELSE <<>>
  IN Merge(Merge([id |-> row.id, type |-> row.type, selector |-> row.selector,
                  description |-> row.description], actionParams), fallbackSelectors)

\* SessionManager.addStep from the push on (213-226) with the insert of
\* DatabaseService.addStep landed: the step gets its id, joins the list in memory,
\* and its row is inserted at the order `session.steps.length - 1`.
persistStep(stepData) ==
  /\ Len(persisted.steps) < MaxTripSteps
  /\ LET step == [stepData EXCEPT !.id = Len(persisted.steps) + 1]
     IN persisted' =
          [persisted EXCEPT
             !.steps = Append(@, step),
             !.rows = @ \cup {InsertedRow("s1", step, Len(persisted.steps))}]
  /\ UNCHANGED tripFrame

\* DatabaseService.getSessionSteps (146-173), as hydration calls it: the rows of the
\* session by ascending step_order, each made a step.
getSessionSteps ==
  /\ persisted' =
       [persisted EXCEPT
          !.read = TRUE,
          !.loaded = [i \in 1..Cardinality(persisted.rows) |->
                        LoadedStep(CHOOSE row \in persisted.rows :
                                     row.session_id = "s1" /\ row.step_order = i - 1)]]
  /\ UNCHANGED tripFrame

\* Steps as addStep accepts them: those given to the code generator that went
\* through addStep, and a fill that clears a field.
TripSteps ==
  {step \in RenderSteps : "fallbackSelectors" \in DOMAIN step}
    \cup {StepWith(FillAlt, [actionParams |-> [value |-> ""]])}

InitTrip == InitWith(0, {})

NextTrip ==
  \/ \E stepData \in TripSteps : persistStep(stepData)
  \/ getSessionSteps

SpecTrip == InitTrip /\ [][NextTrip]_vars

\* The action parameters of a step, none when the key is missing.
ParamsOf(step) == IF "actionParams" \in DOMAIN step THEN step.actionParams ELSE <<>>

SameParams(a, b) ==
  /\ DOMAIN ParamsOf(a) = DOMAIN ParamsOf(b)
  /\ \A k \in DOMAIN ParamsOf(a) : ParamsOf(a)[k] = ParamsOf(b)[k]

FallbacksOf(step) ==
  IF "fallbackSelectors" \in DOMAIN step THEN step.fallbackSelectors ELSE <<>>

\* C38: a step persisted by addStep and loaded back by hydration has the same id,
\* action kind, primary locator, action parameters (every key), description and
\* fallback list as the step in memory.
StepRoundTrip ==
  persisted.read =>
    \A i \in DOMAIN persisted.loaded :
      LET mem == persisted.steps[i]
          got == persisted.loaded[i]
      IN /\ got.id = mem.id
         /\ got.type = mem.type
         /\ got.selector = mem.selector
         /\ SameParams(got, mem)
         /\ got.description = mem.description
         /\ FallbacksOf(got) = FallbacksOf(mem)

\* C39: updateSettings changes only the settings keys its partial settings name:
\* every other key of the session's settings, the status and the step list of every
\* session in memory (each step's fallback locators included) and the rows of the
\* durable store are as before the call; the durable write of the call changes no
\* status and no step either. So only steps added later carry locators of the new
\* strategies.
UpdateSettingsFrame ==
  [][/\ \A s \in Sessions, settings \in SettingsPayloads :
          updateSettings(s, settings) =>
            /\ activeSessions' = activeSessions
            /\ DOMAIN heap' = DOMAIN heap
            /\ \A r \in DOMAIN heap :
                 /\ heap'[r].status = heap[r].status
                 /\ heap'[r].steps = heap[r].steps
                 /\ DOMAIN heap[r].settings \subseteq DOMAIN heap'[r].settings
                 /\ \A k \in DOMAIN heap[r].settings :
                      (r # activeSessions[s] \/ k \notin DOMAIN settings) =>
                        heap'[r].settings[k] = heap[r].settings[k]
            /\ dbSessions' = dbSessions
            /\ dbSteps' = dbSteps
     /\ \A t \in Running :
          (t.op = "updateSettings" /\ CopiesIn(t, tasks') < CopiesIn(t, tasks)) =>
            /\ activeSessions' = activeSessions
            /\ heap' = heap
            /\ dbSteps' = dbSteps
            /\ \A b \in Sessions : dbSessions'[b].status = dbSessions[b].status]_vars

\* C39, witness: a session holds a step added before an updateSettings call that named the strategies only, with the locators of the
\* default strategies, and a step added after it, with the locators of the new
\* ones; the key the call did not name has the value it was created with.
StepsBeforeAndAfterNewSettings ==
  \E s \in Sessions :
    /\ activeSessions[s] # NoObj
    /\ LET session == heap[activeSessions[s]]
       IN /\ session.settings.healingStrategies = NewStrategies.healingStrategies
          /\ session.settings.screenshotMode = DefaultSettings.screenshotMode
          /\ Len(session.steps) = 2
          /\ session.steps[1].fallbackSelectors =
               generateFallbackSelectors(ClickSubmit.selector, ClickSubmit.type,
                                         DefaultStrategies)
          /\ session.steps[2].fallbackSelectors =
               generateFallbackSelectors(ClickSubmit.selector, ClickSubmit.type,
                                         NewStrategies.healingStrategies)
          /\ session.steps[1].fallbackSelectors # session.steps[2].fallbackSelectors

\* C40: when every status operation issued on a session has returned and no durable
\* write failed, the status of the session's row in the durable store is the status
\* the session has in memory, however concurrent startRecording, pauseRecording and
\* stopRecording calls interleave and in whichever order their writes complete.
StatusMirroredWhenQuiet ==
  \A s \in Sessions :
    (activeSessions[s] # NoObj /\ dbSessions[s] # NoRow /\ Quiet(s)) =>
       dbSessions[s].status = heap[activeSessions[s]].status
====
